---- MODULE Spec2Model ----
(***************************************************************************)
(* risp8: a CHIP-8 core with an interpreter and three cached-interpreter   *)
(* variants sharing one State.  The module models the State, the opcode    *)
(* handlers, the decoder table, the block builders, the cache tables with  *)
(* their invalidation, and the commands the core applies between steps.    *)
(*                                                                         *)
(* Representation:                                                         *)
(*   - V, stack, keys are functions over their index ranges;               *)
(*   - memory is the function from the addresses that hold a nonzero byte  *)
(*     to that byte (every other address below MEMORY_SIZE holds 0);       *)
(*   - a cache table is the function from its filled slots to their        *)
(*     entries (every other slot below the table's length is None);        *)
(*   - screen is the set of lit cells <<row, column>> (screen[j][i] is     *)
(*     true iff <<j, i>> is in the set);                                   *)
(*   - a panic of the core thread is the flag `trapped`;                   *)
(*   - `shadow` is a second State advanced by the interpreter's fetch /    *)
(*     decode / execute on the same inputs, one instruction for each       *)
(*     instruction the selected backend executed (a history variable).     *)
(***************************************************************************)
EXTENDS Integers, Sequences, FiniteSets, TLC

VARIABLES
    state,                  \* Chip8::state
    play,                   \* Chip8::play
    execution_method,       \* Chip8::execution_method
    interpreter_caches,     \* Chip8::interpreter_caches   (variant 1)
    interpreter_caches_2,   \* Chip8::interpreter_caches_2 (variant 2)
    interpreter_caches_3,   \* Chip8::interpreter_caches_3 (variant 3)
    jit_caches,             \* Chip8::jit_caches (the native blocks of the JIT)
    channel_out,            \* answers sent by the core
    trapped,                \* the core thread panicked
    shadow,                 \* history: interpreter-only State on the same inputs
    shadowTrapped,          \* history: the interpreter-only run panicked
    last,                   \* history: what the last step did
    storer,                 \* history: the backend that last changed each guest byte
    budget,                 \* history: inputs still allowed by the bounds
    channel_in,             \* commands in flight from the host to Chip8::channel_in
    sender,                 \* the host still holds the Sender<Risp8Command>
    pos,                    \* where the core thread stands in Chip8::run
    sent,                   \* history: every command the host enqueued, in order
    applied,                \* history: every command the core dequeued, in order
    event                   \* history: what the core thread did last

vars == <<state, play, execution_method, interpreter_caches, interpreter_caches_2,
          interpreter_caches_3, jit_caches, channel_out, trapped, shadow, shadowTrapped, last, storer,
          budget, channel_in, sender, pos, sent, applied, event>>

\* The command channel, the position of the core thread and their histories.
runVars == <<channel_in, sender, pos, sent, applied, event>>

---------------------------------------------------------------------------
(* Program constants *)

SCREEN_WIDTH == 64
SCREEN_HEIGHT == 32
INITIAL_PC == 512
MEMORY_SIZE == 4096
MAX_PROGRAM_LEN == MEMORY_SIZE - INITIAL_PC
SUBCACHE_SHIFT == 4
SUBCACHE_SIZE == 16
SUBCACHE_MASK == SUBCACHE_SIZE - 1
U16 == 2 ^ 16
U8 == 2 ^ 8

DEFAULT_SCREEN == {}

NotWaiting == [tag |-> "NotWaiting", key |-> 0]
Waiting == [tag |-> "Waiting", key |-> 0]
Key(k) == [tag |-> "Key", key |-> k]

FONT == <<240, 144, 144, 144, 240,   32,  96,  32,  32, 112,
          240,  16, 240, 128, 240,  240,  16, 240,  16, 240,
          144, 144, 240,  16,  16,  240, 128, 240,  16, 240,
          240, 128, 240, 144, 240,  240,  16,  32,  64,  64,
          240, 144, 240, 144, 240,  240, 144, 240,  16, 240,
          240, 144, 240, 144, 144,  224, 144, 224, 144, 224,
          240, 128, 128, 128, 240,  224, 144, 144, 144, 224,
          240, 128, 240, 128, 240,  240, 128, 240, 128, 128>>

---------------------------------------------------------------------------
(* Opcode accessors *)

OpX(w) == (w \div 256) % 16
OpY(w) == (w \div 16) % 16
OpN(w) == w % 16
OpKK(w) == w % 256
OpNNN(w) == w % 4096
Nibble(w, i) == CASE i = 1 -> (w \div 4096) % 16
                  [] i = 2 -> (w \div 256) % 16
                  [] i = 3 -> (w \div 16) % 16
                  [] OTHER -> w % 16

---------------------------------------------------------------------------
(* State construction *)

\* An array with a default element, held as the function from the indices that
\* differ from the default: read, write one element, write a run of elements.
ArrGet(arr, i, default) == IF i \in DOMAIN arr THEN arr[i] ELSE default
ArrPut(arr, i, v, default) ==
    IF v = default THEN [j \in DOMAIN arr \ {i} |-> arr[j]]
    ELSE [j \in DOMAIN arr \cup {i} |-> IF j = i THEN v ELSE arr[j]]
ArrPutRun(arr, base, vals, default) ==
    LET run == base..(base + Len(vals) - 1)
        keep == (DOMAIN arr \ run) \cup {j \in run : vals[j - base + 1] # default}
    IN [j \in keep |-> IF j \in run THEN vals[j - base + 1] ELSE arr[j]]
ArrClear(arr, lo, hi) == [j \in {k \in DOMAIN arr : k < lo \/ k > hi} |-> arr[j]]

MemGet(memory, a) == ArrGet(memory, a, 0)

new_memory(program) ==
    ArrPutRun(ArrPutRun(<<>>, 0, FONT, 0), INITIAL_PC, program, 0)

StateNew(program) ==
    [SP |-> 0, PC |-> INITIAL_PC, I |-> 0,
     stack |-> [i \in 0..15 |-> 0],
     V |-> [i \in 0..15 |-> 0],
     memory |-> new_memory(program),
     delay |-> 0, sound |-> 0,
     screen |-> DEFAULT_SCREEN,
     keys |-> [i \in 0..15 |-> FALSE],
     wait_key |-> NotWaiting]

---------------------------------------------------------------------------
(* Results of a handler: the new State and the control code, or a panic. *)

Ok(s, r) == [s |-> s, r |-> r, trap |-> FALSE]
Panic(s) == [s |-> s, r |-> 0, trap |-> TRUE]

clear_screen(s) == [s EXCEPT !.screen = DEFAULT_SCREEN]

RECURSIVE DrawBits(_, _, _, _, _)
\* The inner loop of draw over i in 0..8 for one sprite line at row j, origin x.
DrawBits(s, line, j, x, i) ==
    IF i >= 8 THEN s
    ELSE LET mask == 2 ^ (7 - i)
             col == i + x
             set == (line \div mask) % 2 = 1
         IN IF set /\ col < SCREEN_WIDTH /\ j < SCREEN_HEIGHT
            THEN IF <<j, col>> \in s.screen
                 THEN DrawBits([s EXCEPT !.screen = @ \ {<<j, col>>}, !.V[15] = 1],
                               line, j, x, i + 1)
                 ELSE DrawBits([s EXCEPT !.screen = @ \cup {<<j, col>>}],
                               line, j, x, i + 1)
            ELSE DrawBits(s, line, j, x, i + 1)

RECURSIVE DrawLines(_, _, _, _, _)
\* The outer loop of draw over j in 0..n; reading past the memory panics.
DrawLines(s, x, y, j, n) ==
    IF j >= n THEN Ok(s, 0)
    ELSE IF s.I + j >= MEMORY_SIZE THEN Panic(s)
    ELSE DrawLines(DrawBits(s, MemGet(s.memory, s.I + j), j + y, x, 0), x, y, j + 1, n)

\* A draw that does not clear V[F] before it draws.
draw_keeping_flag(s, xr, yr, n) ==
    LET x == s.V[xr] % SCREEN_WIDTH
        y == s.V[yr] % SCREEN_HEIGHT
    IN DrawLines(s, x, y, 0, n)

draw(s, xr, yr, n) ==
    LET s0 == [s EXCEPT !.V[15] = 0]
        x == s0.V[xr] % SCREEN_WIDTH
        y == s0.V[yr] % SCREEN_HEIGHT
    IN DrawLines(s0, x, y, 0, n)

\* A set_key that fires the wait on any release, whether or not the key was down.
set_key_any_release(s, key, pressed) ==
    IF key <= 15
    THEN LET s1 == IF s.wait_key = Waiting /\ ~pressed
                   THEN [s EXCEPT !.wait_key = Key(key)]
                   ELSE s
         IN [s1 EXCEPT !.keys[key] = pressed]
    ELSE s

set_key(s, key, pressed) ==
    IF key <= 15
    THEN LET s1 == IF s.wait_key = Waiting /\ s.keys[key] /\ ~pressed
                   THEN [s EXCEPT !.wait_key = Key(key)]
                   ELSE s
         IN [s1 EXCEPT !.keys[key] = pressed]
    ELSE s

\* A wait_key that hands the key over without going back to NotWaiting.
wait_key_sticky(s, x) ==
    CASE s.wait_key = NotWaiting -> [s |-> [s EXCEPT !.wait_key = Waiting], over |-> FALSE]
      [] s.wait_key = Waiting -> [s |-> s, over |-> FALSE]
      [] OTHER -> [s |-> [s EXCEPT !.V[x] = s.wait_key.key], over |-> TRUE]

\* wait_key returns the new State and whether the wait is over.
wait_key(s, x) ==
    CASE s.wait_key = NotWaiting -> [s |-> [s EXCEPT !.wait_key = Waiting], over |-> FALSE]
      [] s.wait_key = Waiting -> [s |-> s, over |-> FALSE]
      [] OTHER -> [s |-> [s EXCEPT !.V[x] = s.wait_key.key, !.wait_key = NotWaiting],
                   over |-> TRUE]

---------------------------------------------------------------------------
(* Opcode handlers (impl State).  Each takes the State after PC += 2, the  *)
(* opcode, the random byte it would draw and whether the build checks      *)
(* arithmetic overflow (ovf), and returns Ok(State, control code) or Panic.*)

execute_00E0(s, w) == Ok(clear_screen(s), 0)

execute_00EE(s, w) ==
    IF s.SP > 0
    THEN Ok([s EXCEPT !.SP = s.SP - 1, !.PC = s.stack[s.SP - 1]], 1)
    ELSE Ok(s, 1)

execute_1nnn(s, w) == Ok([s EXCEPT !.PC = OpNNN(w)], 1)

\* A 2nnn that calls whenever a stack slot is free.
execute_2nnn_full(s, w) ==
    IF s.SP < 16
    THEN Ok([s EXCEPT !.stack[s.SP] = s.PC, !.SP = s.SP + 1, !.PC = OpNNN(w)], 1)
    ELSE Ok(s, 1)

execute_2nnn(s, w) ==
    IF s.SP < 15
    THEN Ok([s EXCEPT !.stack[s.SP] = s.PC, !.SP = s.SP + 1, !.PC = OpNNN(w)], 1)
    ELSE Ok(s, 1)

\* The shared shape of the conditional skips: PC += 2 and 1 when taken, else 0.
Skip(s, taken) == IF taken THEN Ok([s EXCEPT !.PC = s.PC + 2], 1) ELSE Ok(s, 0)

execute_3xkk(s, w) == Skip(s, s.V[OpX(w)] = OpKK(w))
execute_4xkk(s, w) == Skip(s, s.V[OpX(w)] # OpKK(w))
execute_5xy0(s, w) == Skip(s, s.V[OpX(w)] = s.V[OpY(w)])
execute_6xkk(s, w) == Ok([s EXCEPT !.V[OpX(w)] = OpKK(w)], 0)
execute_7xkk(s, w) == Ok([s EXCEPT !.V[OpX(w)] = (s.V[OpX(w)] + OpKK(w)) % U8], 0)
execute_8xy0(s, w) == Ok([s EXCEPT !.V[OpX(w)] = s.V[OpY(w)]], 0)

\* Bitwise operations on bytes, bit by bit.
BitOp(a, b, f(_, _)) ==
    LET bit(v, i) == (v \div (2 ^ i)) % 2
        RECURSIVE sum(_)
        sum(i) == IF i > 7 THEN 0 ELSE f(bit(a, i), bit(b, i)) * (2 ^ i) + sum(i + 1)
    IN sum(0)
BitOr(a, b) == LET f(p, q) == IF p + q > 0 THEN 1 ELSE 0 IN BitOp(a, b, f)
BitAnd(a, b) == LET f(p, q) == p * q IN BitOp(a, b, f)
BitXor(a, b) == LET f(p, q) == (p + q) % 2 IN BitOp(a, b, f)

execute_8xy1(s, w) == Ok([s EXCEPT !.V[OpX(w)] = BitOr(s.V[OpX(w)], s.V[OpY(w)])], 0)
execute_8xy2(s, w) == Ok([s EXCEPT !.V[OpX(w)] = BitAnd(s.V[OpX(w)], s.V[OpY(w)])], 0)
execute_8xy3(s, w) == Ok([s EXCEPT !.V[OpX(w)] = BitXor(s.V[OpX(w)], s.V[OpY(w)])], 0)

execute_8xy4(s, w) ==
    LET sum == s.V[OpX(w)] + s.V[OpY(w)]
        s1 == [s EXCEPT !.V[OpX(w)] = sum % U8]
    IN Ok([s1 EXCEPT !.V[15] = IF sum >= U8 THEN 1 ELSE 0], 0)

execute_8xy5(s, w) ==
    LET b == s.V[OpX(w)] < s.V[OpY(w)]
        s1 == [s EXCEPT !.V[OpX(w)] = (s.V[OpX(w)] - s.V[OpY(w)] + U8) % U8]
    IN Ok([s1 EXCEPT !.V[15] = IF b THEN 0 ELSE 1], 0)

\* A shift that takes its operand from V[y], as the original machine did.
execute_8xy6_of_y(s, w) ==
    LET c == s.V[OpY(w)] % 2
        s1 == [s EXCEPT !.V[OpX(w)] = s.V[OpY(w)] \div 2]
    IN Ok([s1 EXCEPT !.V[15] = c], 0)

execute_8xy6(s, w) ==
    LET c == s.V[OpX(w)] % 2
        s1 == [s EXCEPT !.V[OpX(w)] = s.V[OpX(w)] \div 2]
    IN Ok([s1 EXCEPT !.V[15] = c], 0)

execute_8xy7(s, w) ==
    LET b == s.V[OpY(w)] < s.V[OpX(w)]
        s1 == [s EXCEPT !.V[OpX(w)] = (s.V[OpY(w)] - s.V[OpX(w)] + U8) % U8]
    IN Ok([s1 EXCEPT !.V[15] = IF b THEN 0 ELSE 1], 0)

execute_8xyE(s, w) ==
    LET c == (s.V[OpX(w)] \div 128) % 2
        s1 == [s EXCEPT !.V[OpX(w)] = (s.V[OpX(w)] * 2) % U8]
    IN Ok([s1 EXCEPT !.V[15] = c], 0)

execute_9xy0(s, w) == Skip(s, s.V[OpX(w)] # s.V[OpY(w)])
execute_Annn(s, w) == Ok([s EXCEPT !.I = OpNNN(w)], 0)
execute_Bnnn(s, w) == Ok([s EXCEPT !.PC = OpNNN(w) + s.V[0]], 1)
execute_Cxkk(s, w, rnd) == Ok([s EXCEPT !.V[OpX(w)] = BitAnd(rnd, OpKK(w))], 0)
execute_Dxyn(s, w) == draw(s, OpX(w), OpY(w), OpN(w))

execute_Ex9E(s, w) ==
    IF s.V[OpX(w)] > 15 THEN Panic(s) ELSE Skip(s, s.keys[s.V[OpX(w)]])
execute_ExA1(s, w) ==
    IF s.V[OpX(w)] > 15 THEN Panic(s) ELSE Skip(s, ~s.keys[s.V[OpX(w)]])

execute_Fx07(s, w) == Ok([s EXCEPT !.V[OpX(w)] = s.delay], 0)

\* An Fx0A that does not step back onto itself while the wait goes on.
execute_Fx0A_no_rewind(s, w) ==
    LET wk == wait_key(s, OpX(w))
    IN IF ~wk.over THEN Ok(wk.s, 1) ELSE Ok(wk.s, 0)

execute_Fx0A(s, w) ==
    LET wk == wait_key(s, OpX(w))
    IN IF ~wk.over THEN Ok([wk.s EXCEPT !.PC = wk.s.PC - 2], 1) ELSE Ok(wk.s, 0)

execute_Fx15(s, w) == Ok([s EXCEPT !.delay = s.V[OpX(w)]], 0)
execute_Fx18(s, w) == Ok([s EXCEPT !.sound = s.V[OpX(w)]], 0)

execute_Fx1E(s, w, ovf) ==
    IF s.I + s.V[OpX(w)] >= U16 /\ ovf THEN Panic(s)
    ELSE Ok([s EXCEPT !.I = (s.I + s.V[OpX(w)]) % U16], 0)

\* An Fx29 that takes the digit from the low nibble of V[x].
execute_Fx29_masked(s, w) == Ok([s EXCEPT !.I = (s.V[OpX(w)] % 16) * 5], 0)

execute_Fx29(s, w) == Ok([s EXCEPT !.I = s.V[OpX(w)] * 5], 0)

execute_Fx33(s, w) ==
    IF s.I + 2 >= MEMORY_SIZE THEN Panic(s)
    ELSE LET v == s.V[OpX(w)]
         IN Ok([s EXCEPT !.memory = ArrPutRun(s.memory, s.I,
                    <<v \div 100, (v \div 10) % 10, v % 10>>, 0)], 0)

execute_Fx55(s, w) ==
    LET x == OpX(w)
    IN IF s.I + x >= MEMORY_SIZE THEN Panic(s)
       ELSE Ok([s EXCEPT !.memory = ArrPutRun(s.memory, s.I, [i \in 1..(x + 1) |-> s.V[i - 1]], 0)],
               s.I * U16 + (s.I + x))

\* An Fx65 that stops one register short of V[x].
execute_Fx65_short(s, w) ==
    LET x == OpX(w)
    IN IF s.I + x >= MEMORY_SIZE THEN Panic(s)
       ELSE Ok([s EXCEPT !.V = [i \in 0..15 |->
                    IF i < x THEN MemGet(s.memory, s.I + i) ELSE s.V[i]]], 0)

execute_Fx65(s, w) ==
    LET x == OpX(w)
    IN IF s.I + x >= MEMORY_SIZE THEN Panic(s)
       ELSE Ok([s EXCEPT !.V = [i \in 0..15 |->
                    IF i <= x THEN MemGet(s.memory, s.I + i) ELSE s.V[i]]], 0)

execute_invalid(s, w) == Panic(s)

\* Calling a handler through its function pointer.
Execute(h, s, w, rnd, ovf) ==
    CASE h = "00E0" -> execute_00E0(s, w)
      [] h = "00EE" -> execute_00EE(s, w)
      [] h = "1nnn" -> execute_1nnn(s, w)
      [] h = "2nnn" -> execute_2nnn(s, w)
      [] h = "3xkk" -> execute_3xkk(s, w)
      [] h = "4xkk" -> execute_4xkk(s, w)
      [] h = "5xy0" -> execute_5xy0(s, w)
      [] h = "6xkk" -> execute_6xkk(s, w)
      [] h = "7xkk" -> execute_7xkk(s, w)
      [] h = "8xy0" -> execute_8xy0(s, w)
      [] h = "8xy1" -> execute_8xy1(s, w)
      [] h = "8xy2" -> execute_8xy2(s, w)
      [] h = "8xy3" -> execute_8xy3(s, w)
      [] h = "8xy4" -> execute_8xy4(s, w)
      [] h = "8xy5" -> execute_8xy5(s, w)
      [] h = "8xy6" -> execute_8xy6(s, w)
      [] h = "8xy7" -> execute_8xy7(s, w)
      [] h = "8xyE" -> execute_8xyE(s, w)
      [] h = "9xy0" -> execute_9xy0(s, w)
      [] h = "Annn" -> execute_Annn(s, w)
      [] h = "Bnnn" -> execute_Bnnn(s, w)
      [] h = "Cxkk" -> execute_Cxkk(s, w, rnd)
      [] h = "Dxyn" -> execute_Dxyn(s, w)
      [] h = "Ex9E" -> execute_Ex9E(s, w)
      [] h = "ExA1" -> execute_ExA1(s, w)
      [] h = "Fx07" -> execute_Fx07(s, w)
      [] h = "Fx0A" -> execute_Fx0A(s, w)
      [] h = "Fx15" -> execute_Fx15(s, w)
      [] h = "Fx18" -> execute_Fx18(s, w)
      [] h = "Fx1E" -> execute_Fx1E(s, w, ovf)
      [] h = "Fx29" -> execute_Fx29(s, w)
      [] h = "Fx33" -> execute_Fx33(s, w)
      [] h = "Fx55" -> execute_Fx55(s, w)
      [] h = "Fx65" -> execute_Fx65(s, w)
      [] OTHER -> execute_invalid(s, w)

---------------------------------------------------------------------------
(* The decoder table.  A format is four nibbles; W stands for a wildcard   *)
(* letter (any character above 'F').                                       *)

W == 16

INSTRUCTION_FORMATS == <<
    <<<<0, 0, 14, 0>>, "00E0">>,  <<<<0, 0, 14, 14>>, "00EE">>,
    <<<<1, W, W, W>>, "1nnn">>,   <<<<2, W, W, W>>, "2nnn">>,
    <<<<3, W, W, W>>, "3xkk">>,   <<<<4, W, W, W>>, "4xkk">>,
    <<<<5, W, W, 0>>, "5xy0">>,   <<<<6, W, W, W>>, "6xkk">>,
    <<<<7, W, W, W>>, "7xkk">>,   <<<<8, W, W, 0>>, "8xy0">>,
    <<<<8, W, W, 1>>, "8xy1">>,   <<<<8, W, W, 2>>, "8xy2">>,
    <<<<8, W, W, 3>>, "8xy3">>,   <<<<8, W, W, 4>>, "8xy4">>,
    <<<<8, W, W, 5>>, "8xy5">>,   <<<<8, W, W, 6>>, "8xy6">>,
    <<<<8, W, W, 7>>, "8xy7">>,   <<<<8, W, W, 14>>, "8xyE">>,
    <<<<9, W, W, 0>>, "9xy0">>,   <<<<10, W, W, W>>, "Annn">>,
    <<<<11, W, W, W>>, "Bnnn">>,  <<<<12, W, W, W>>, "Cxkk">>,
    <<<<13, W, W, W>>, "Dxyn">>,  <<<<14, W, 9, 14>>, "Ex9E">>,
    <<<<14, W, 10, 1>>, "ExA1">>, <<<<15, W, 0, 7>>, "Fx07">>,
    <<<<15, W, 0, 10>>, "Fx0A">>, <<<<15, W, 1, 5>>, "Fx15">>,
    <<<<15, W, 1, 8>>, "Fx18">>,  <<<<15, W, 1, 14>>, "Fx1E">>,
    <<<<15, W, 2, 9>>, "Fx29">>,  <<<<15, W, 3, 3>>, "Fx33">>,
    <<<<15, W, 5, 5>>, "Fx55">>,  <<<<15, W, 6, 5>>, "Fx65">>
>>

\* generate_opcodes writes the handler at every word the format expands to.
generate_opcodes(format, w) ==
    \A i \in 1..4 : format[i] > 15 \/ format[i] = Nibble(w, i)

\* ILUT[w], as generate_decoder fills it: the handler of the last format that
\* wrote the entry, execute_invalid when none did.
ILUT(w) ==
    LET hits == {i \in 1..Len(INSTRUCTION_FORMATS) :
                    generate_opcodes(INSTRUCTION_FORMATS[i][1], w)}
    IN IF hits = {} THEN "invalid"
       ELSE INSTRUCTION_FORMATS[CHOOSE i \in hits : \A j \in hits : j <= i][2]

---------------------------------------------------------------------------
(* Timers *)

\* Risp8Answer
PlaySound == [answer |-> "PlaySound"]
StopSound == [answer |-> "StopSound"]
Screen(screen) == [answer |-> "Screen", screen |-> screen]

\* A handle_timers that decrements without testing for 0.
handle_timers_wrapping(c, elapsed) ==
    IF ~elapsed THEN c
    ELSE LET s == c.state
         IN [c EXCEPT !.state = [s EXCEPT !.delay = (s.delay - 1) % U8,
                                          !.sound = (s.sound - 1) % U8],
                      !.channel_out = Append(@, IF s.sound > 0 THEN PlaySound ELSE StopSound)]

\* handle_timers on the core c; elapsed: timer.elapsed() >= 16 666 us.
handle_timers(c, elapsed) ==
    IF ~elapsed THEN c
    ELSE LET s == c.state
             s1 == IF s.delay > 0 THEN [s EXCEPT !.delay = s.delay - 1] ELSE s
             s2 == IF s.sound > 0 THEN [s1 EXCEPT !.sound = s.sound - 1] ELSE s1
         IN [c EXCEPT !.state = s2,
                      !.channel_out = Append(@, IF s.sound > 0 THEN PlaySound ELSE StopSound)]

---------------------------------------------------------------------------
(* Fetch *)

\* The big-endian word at pc; reading past the memory panics.
FetchOk(memory, pc) == pc + 1 < MEMORY_SIZE
Fetch(memory, pc) == MemGet(memory, pc) * 256 + MemGet(memory, pc + 1)

\* The random byte a Cxkk draws: the next one of the step's input, 0 past its end.
RndAt(rnds, i) == IF i <= Len(rnds) THEN rnds[i] ELSE 0

\* An executed instruction: its address, the opcode the backend ran (fetched or
\* cached) and the word guest memory held at that address when it ran.
Executed(opcode, memory, pc) ==
    [pc |-> pc, opcode |-> opcode, fetched |-> Fetch(memory, pc)]

\* What a backend step returns: the core after it, the number of guest
\* instructions it executed or panicked on, those instructions, and the last
\* control code.
StepResult(c, n, ops, ret) == [c |-> c, n |-> n, ops |-> ops, ret |-> ret]
Trapped(c) == [c EXCEPT !.trapped = TRUE]

---------------------------------------------------------------------------
(* Interpreter *)

\* The end of the interpreter once the handler has returned res: the panic, or
\* handle_timers (the control code is ignored).
InterpreterEnd(c, ops, res, elapsed) ==
    IF res.trap THEN StepResult(Trapped(c), 1, ops, 0)
    ELSE StepResult(handle_timers([c EXCEPT !.state = res.s], elapsed), 1, ops, res.r)

\* PC += 2 and the call through ILUT, for the opcode fetched.
InterpreterAt(c, opcode, rnd, elapsed, ovf) ==
    InterpreterEnd(c, <<Executed(opcode, c.state.memory, c.state.PC)>>,
                   Execute(ILUT(opcode), [c.state EXCEPT !.PC = c.state.PC + 2], opcode,
                           rnd, ovf),
                   elapsed)

interpreter(c, rnds, elapsed, ovf) ==
    IF ~FetchOk(c.state.memory, c.state.PC) THEN StepResult(Trapped(c), 1, <<>>, 0)
    ELSE InterpreterAt(c, Fetch(c.state.memory, c.state.PC), RndAt(rnds, 1), elapsed, ovf)

---------------------------------------------------------------------------
(* Cached interpreter, variant 1 *)

\* A table whose slots are all None.
EMPTY_TABLE == <<>>

\* Filling slot i of a cache table.
Fill(caches, i, entry) == [j \in DOMAIN caches \cup {i} |-> IF j = i THEN entry ELSE caches[j]]

CachedInstruction(opcode, execute) == [opcode |-> opcode, execute |-> execute]
InstructionCache(pc, end_pc, instructions) ==
    [pc |-> pc, end_pc |-> end_pc, instructions |-> instructions]

INTERPRETER_CACHES_LEN == MAX_PROGRAM_LEN

\* addr as usize - INITIAL_PC: a usable index iff the address is not below 0x200
\* (the subtraction panics with overflow checks and wraps far past the table without).
addr_to_index(addr) == addr - INITIAL_PC
IndexOk(addr) == addr >= INITIAL_PC /\ addr_to_index(addr) < INTERPRETER_CACHES_LEN

\* The match of the block builders on one opcode: the handler pushed ("none" when
\* nothing is pushed) and whether the builder breaks out of its loop.
CacheMatch(w) ==
    LET push(h) == [execute |-> h, stop |-> FALSE]
        last_(h) == [execute |-> h, stop |-> TRUE]
        brk == [execute |-> "none", stop |-> TRUE]
        hi == Nibble(w, 1)
        lo == Nibble(w, 4)
        low8 == w % 256
    IN CASE hi = 0 -> (CASE w = 224 -> push("00E0") [] w = 238 -> last_("00EE") [] OTHER -> brk)
         [] hi = 1 -> last_("1nnn")
         [] hi = 2 -> last_("2nnn")
         [] hi = 3 -> push("3xkk")
         [] hi = 4 -> push("4xkk")
         [] hi = 5 -> push("5xy0")
         [] hi = 6 -> push("6xkk")
         [] hi = 7 -> push("7xkk")
         [] hi = 8 -> (CASE lo = 0 -> push("8xy0") [] lo = 1 -> push("8xy1")
                         [] lo = 2 -> push("8xy2") [] lo = 3 -> push("8xy3")
                         [] lo = 4 -> push("8xy4") [] lo = 5 -> push("8xy5")
                         [] lo = 6 -> push("8xy6") [] lo = 7 -> push("8xy7")
                         [] lo = 14 -> push("8xyE") [] OTHER -> brk)
         [] hi = 9 -> push("9xy0")
         [] hi = 10 -> push("Annn")
         [] hi = 11 -> last_("Bnnn")
         [] hi = 12 -> push("Cxkk")
         [] hi = 13 -> push("Dxyn")
         [] hi = 14 -> (CASE low8 = 158 -> push("Ex9E") [] low8 = 161 -> push("ExA1")
                          [] OTHER -> brk)
         [] OTHER -> (CASE low8 = 7 -> push("Fx07") [] low8 = 10 -> last_("Fx0A")
                        [] low8 = 21 -> push("Fx15") [] low8 = 24 -> push("Fx18")
                        [] low8 = 30 -> push("Fx1E") [] low8 = 41 -> push("Fx29")
                        [] low8 = 51 -> push("Fx33") [] low8 = 85 -> last_("Fx55")
                        [] low8 = 101 -> push("Fx65") [] OTHER -> brk)

RECURSIVE BuildLoop(_, _, _, _)
\* One turn of the builders' loop: opcode matched as m, pushed the block so far.
BuildNext(memory, pc1, m, pushed, pool) ==
    IF m.stop \/ (pool /\ (pc1 - INITIAL_PC) % SUBCACHE_SIZE = 0)
    THEN [trap |-> FALSE, pc |-> pc1, instructions |-> pushed]
    ELSE BuildLoop(memory, pc1, pushed, pool)

\* What the match arm does with the block: push the opcode with its handler, or
\* nothing.
Pushed(instructions, opcode, m) ==
    IF m.execute = "none" THEN instructions
    ELSE Append(instructions, CachedInstruction(opcode, m.execute))

BuildAt(memory, pc, instructions, pool, opcode, m) ==
    BuildNext(memory, pc + 2, m, Pushed(instructions, opcode, m), pool)

\* The 'outer loop of the builders from pc with the instructions pushed so far;
\* pool: variant 2's extra stop at a pool boundary.
BuildLoop(memory, pc, instructions, pool) ==
    IF ~FetchOk(memory, pc) THEN [trap |-> TRUE, pc |-> pc, instructions |-> instructions]
    ELSE BuildAt(memory, pc, instructions, pool, Fetch(memory, pc),
                 CacheMatch(Fetch(memory, pc)))

\* The InstructionCache made of what the loop built from block_pc, or a panic when
\* the loop panicked or built nothing.
BlockOf(block_pc, b) ==
    IF b.trap \/ b.instructions = <<>> THEN [trap |-> TRUE, cache |-> <<>>]
    ELSE [trap |-> FALSE, cache |-> InstructionCache(block_pc, b.pc, b.instructions)]

\* new_cache_block: the block at the current PC.
new_cache_block(s) == BlockOf(s.PC, BuildLoop(s.memory, s.PC, <<>>, FALSE))

RECURSIVE RunBlock(_, _, _, _, _, _, _)
\* A replay loop that lacks the `if r != 0 { ret = r; break; }` test: it runs the
\* block to its end whatever the handlers return.
RunBlockNextThrough(s, res, instructions, i, rnds, ri1, ovf, ops1) ==
    IF res.trap THEN [s |-> s, ret |-> 0, trap |-> TRUE, n |-> i, ops |-> ops1]
    ELSE IF i = Len(instructions)
         THEN [s |-> res.s, ret |-> res.r, trap |-> FALSE, n |-> i, ops |-> ops1]
         ELSE RunBlock(res.s, instructions, i + 1, rnds, ri1, ovf, ops1)

\* After instruction i has returned res: stop on a panic or a nonzero control
\* code, else go on with the next instruction.
RunBlockNext(s, res, instructions, i, rnds, ri1, ovf, ops1) ==
    IF res.trap THEN [s |-> s, ret |-> 0, trap |-> TRUE, n |-> i, ops |-> ops1]
    ELSE IF res.r # 0
         THEN [s |-> res.s, ret |-> res.r, trap |-> FALSE, n |-> i, ops |-> ops1]
         ELSE RunBlock(res.s, instructions, i + 1, rnds, ri1, ovf, ops1)

\* "Execute the cache": the loop over cache.instructions from position i, ri being
\* the next random byte to draw; returns the State, the last control code, whether a
\* handler panicked, and the instructions that ran.
RunBlock(s, instructions, i, rnds, ri, ovf, ops) ==
    IF i > Len(instructions) THEN [s |-> s, ret |-> 0, trap |-> FALSE, n |-> i - 1, ops |-> ops]
    ELSE RunBlockNext(s,
                      Execute(instructions[i].execute, [s EXCEPT !.PC = s.PC + 2],
                              instructions[i].opcode, RndAt(rnds, ri), ovf),
                      instructions, i, rnds,
                      IF instructions[i].execute = "Cxkk" THEN ri + 1 ELSE ri, ovf,
                      Append(ops, Executed(instructions[i].opcode, s.memory, s.PC)))

\* An invalidation that clears every block starting below the end of the range.
invalidate_cache_below(caches, beg_addr, end_addr) ==
    [i \in {k \in DOMAIN caches : caches[k].pc > end_addr} |-> caches[i]]

\* invalidate_cache: the scan of the whole table.
invalidate_cache(caches, beg_addr, end_addr) ==
    LET hit(cache) == (beg_addr >= cache.pc /\ beg_addr < cache.end_pc)
                      \/ (end_addr >= cache.pc /\ end_addr < cache.end_pc)
    IN [i \in {k \in DOMAIN caches : ~hit(caches[k])} |-> caches[i]]

RetBeg(ret) == (ret \div U16) % U16
RetEnd(ret) == ret % U16

\* After the replay: the panic, or the invalidation when ret > 1, then handle_timers.
CachedInterpreterEnd(c, caches1, run, elapsed) ==
    IF run.trap THEN StepResult(Trapped(c), run.n, run.ops, 0)
    ELSE StepResult(
           handle_timers(
             [c EXCEPT !.state = run.s,
                       !.interpreter_caches =
                           IF run.ret > 1
                           THEN invalidate_cache(caches1, RetBeg(run.ret), RetEnd(run.ret))
                           ELSE caches1],
             elapsed),
           run.n, run.ops, run.ret)

\* The block found or built (a panic of the builder ends the step), stored in its
\* slot and replayed.
CachedInterpreterRun(c, cache_index, built, rnds, elapsed, ovf) ==
    IF built.trap THEN StepResult(Trapped(c), 1, <<>>, 0)
    ELSE CachedInterpreterEnd(c, Fill(c.interpreter_caches, cache_index, built.cache),
                              RunBlock(c.state, built.cache.instructions, 1, rnds, 1, ovf, <<>>),
                              elapsed)

cached_interpreter(c, rnds, elapsed, ovf) ==
    IF ~IndexOk(c.state.PC) THEN StepResult(Trapped(c), 1, <<>>, 0)
    ELSE CachedInterpreterRun(
           c, addr_to_index(c.state.PC),
           IF addr_to_index(c.state.PC) \in DOMAIN c.interpreter_caches
           THEN [trap |-> FALSE, cache |-> c.interpreter_caches[addr_to_index(c.state.PC)]]
           ELSE new_cache_block(c.state),
           rnds, elapsed, ovf)

---------------------------------------------------------------------------
(* Cached interpreter, variant 2 *)

INTERPRETER_CACHES_LEN_2 == (MEMORY_SIZE - INITIAL_PC) \div SUBCACHE_SIZE

\* addr as usize - INITIAL_PC >> SUBCACHE_SHIFT
addr_to_index_2(addr) == (addr - INITIAL_PC) \div (2 ^ SUBCACHE_SHIFT)
\* `addr as usize - INITIAL_PC & SUBCACHE_SIZE`: the size taken for the mask.
index_in_subcache_sized(addr) == IF ((addr - INITIAL_PC) \div SUBCACHE_SIZE) % 2 = 1
                                 THEN SUBCACHE_SIZE ELSE 0

\* addr as usize - INITIAL_PC & SUBCACHE_MASK
index_in_subcache(addr) == (addr - INITIAL_PC) % (SUBCACHE_MASK + 1)
IndexOk2(addr) == addr >= INITIAL_PC /\ addr_to_index_2(addr) < INTERPRETER_CACHES_LEN_2

EMPTY_POOL == <<>>

new_cache_block_2(block_pc, memory) == BlockOf(block_pc, BuildLoop(memory, block_pc, <<>>, TRUE))

\* `for addr in beg..=end` over indices computed by subtracting INITIAL_PC from the
\* two ends of an invalidation range: with overflow checks an end below 0x200
\* panics; without them it wraps to a huge index, so the loop is empty when only
\* beg wrapped and indexes out of the table when both did.
RangePanics(beg_addr, end_addr, ovf) ==
    beg_addr < INITIAL_PC /\ (ovf \/ end_addr < INITIAL_PC)
RangeEmpty(beg_addr, end_addr) == beg_addr < INITIAL_PC \/ end_addr < beg_addr

\* After the replay of variant 2: the panic, or the pools of the range set to None
\* when ret > 1, then handle_timers.
CachedInterpreter2End(c, caches1, run, elapsed, ovf) ==
    IF run.trap \/ (run.ret > 1 /\ RangePanics(RetBeg(run.ret), RetEnd(run.ret), ovf))
    THEN StepResult(Trapped(c), run.n, run.ops, 0)
    ELSE StepResult(
           handle_timers(
             [c EXCEPT !.state = run.s,
                       !.interpreter_caches_2 =
                           IF run.ret > 1 /\ ~RangeEmpty(RetBeg(run.ret), RetEnd(run.ret))
                           THEN ArrClear(caches1, addr_to_index_2(RetBeg(run.ret)),
                                         addr_to_index_2(RetEnd(run.ret)))
                           ELSE caches1],
             elapsed),
           run.n, run.ops, run.ret)

CachedInterpreter2Run(c, pool_index, pool, cache_index, built, rnds, elapsed, ovf) ==
    IF built.trap THEN StepResult(Trapped(c), 1, <<>>, 0)
    ELSE CachedInterpreter2End(
           c, Fill(c.interpreter_caches_2, pool_index, Fill(pool, cache_index, built.cache)),
           RunBlock(c.state, built.cache.instructions, 1, rnds, 1, ovf, <<>>),
           elapsed, ovf)

\* The pool of PC, found or created, and in it the block found or built.
CachedInterpreter2Pool(c, pool_index, pool, cache_index, rnds, elapsed, ovf) ==
    CachedInterpreter2Run(
        c, pool_index, pool, cache_index,
        IF cache_index \in DOMAIN pool THEN [trap |-> FALSE, cache |-> pool[cache_index]]
        ELSE new_cache_block_2(c.state.PC, c.state.memory),
        rnds, elapsed, ovf)

cached_interpreter_2(c, rnds, elapsed, ovf) ==
    IF ~IndexOk2(c.state.PC) THEN StepResult(Trapped(c), 1, <<>>, 0)
    ELSE CachedInterpreter2Pool(
           c, addr_to_index_2(c.state.PC),
           ArrGet(c.interpreter_caches_2, addr_to_index_2(c.state.PC), EMPTY_POOL),
           index_in_subcache(c.state.PC), rnds, elapsed, ovf)

---------------------------------------------------------------------------
(* Cached interpreter, variant 3 *)

\* After the handler has returned res: the panic, or the slots of the range set
\* to None when the code is > 1.
CachedInterpreter3End(c0, caches1, ops, res, ovf) ==
    IF res.trap \/ (res.r > 1 /\ RangePanics(RetBeg(res.r), RetEnd(res.r), ovf))
    THEN StepResult(Trapped(c0), 1, ops, 0)
    ELSE StepResult(
           [c0 EXCEPT !.state = res.s,
                      !.interpreter_caches_3 =
                          IF res.r > 1 /\ ~RangeEmpty(RetBeg(res.r), RetEnd(res.r))
                          THEN ArrClear(caches1, addr_to_index(RetBeg(res.r)),
                                        addr_to_index(RetEnd(res.r)))
                          ELSE caches1],
           1, ops, res.r)

\* The instruction found or decoded, stored in its slot and executed.
CachedInterpreter3Run(c0, cache_index, inst, rnd, ovf) ==
    CachedInterpreter3End(
        c0, Fill(c0.interpreter_caches_3, cache_index, inst),
        <<Executed(inst.opcode, c0.state.memory, c0.state.PC)>>,
        Execute(inst.execute, [c0.state EXCEPT !.PC = c0.state.PC + 2], inst.opcode, rnd, ovf),
        ovf)

\* The body of cached_interpreter_3 after its handle_timers.
CachedInterpreter3At(c0, rnd, ovf) ==
    IF ~IndexOk(c0.state.PC) THEN StepResult(Trapped(c0), 1, <<>>, 0)
    ELSE IF /\ addr_to_index(c0.state.PC) \notin DOMAIN c0.interpreter_caches_3
            /\ ~FetchOk(c0.state.memory, c0.state.PC)
    THEN StepResult(Trapped(c0), 1, <<>>, 0)
    ELSE CachedInterpreter3Run(
           c0, addr_to_index(c0.state.PC),
           IF addr_to_index(c0.state.PC) \in DOMAIN c0.interpreter_caches_3
           THEN c0.interpreter_caches_3[addr_to_index(c0.state.PC)]
           ELSE CachedInstruction(Fetch(c0.state.memory, c0.state.PC),
                                  ILUT(Fetch(c0.state.memory, c0.state.PC))),
           rnd, ovf)

cached_interpreter_3(c, rnds, elapsed, ovf) ==
    CachedInterpreter3At(handle_timers(c, elapsed), RndAt(rnds, 1), ovf)

---------------------------------------------------------------------------
(* JIT: the values a native block returns *)

\* A 64-bit value as four 16-bit words, w3 the highest (bits 48..63), w0 the lowest.
Word64(w3, w2, w1, w0) == [w3 |-> w3, w2 |-> w2, w1 |-> w1, w0 |-> w0]

\* `v as i64` / `v as u64` of a 16-bit value.
Ext64(v) == Word64(0, 0, 0, v % U16)

\* a << (16 * k): the words move up k places, the ones pushed out are lost.
Shl64(a, k) ==
    CASE k = 0 -> a
      [] k = 1 -> Word64(a.w2, a.w1, a.w0, 0)
      [] k = 2 -> Word64(a.w1, a.w0, 0, 0)
      [] k = 3 -> Word64(a.w0, 0, 0, 0)
      [] OTHER -> Word64(0, 0, 0, 0)

\* a >> (16 * k), logical.
Shr64(a, k) ==
    CASE k = 0 -> a
      [] k = 1 -> Word64(0, a.w3, a.w2, a.w1)
      [] k = 2 -> Word64(0, 0, a.w3, a.w2)
      [] k = 3 -> Word64(0, 0, 0, a.w3)
      [] OTHER -> Word64(0, 0, 0, 0)

Or16(a, b) == BitOr(a \div 256, b \div 256) * 256 + BitOr(a % 256, b % 256)
And16(a, b) == BitAnd(a \div 256, b \div 256) * 256 + BitAnd(a % 256, b % 256)

\* a | b
Or64(a, b) == Word64(Or16(a.w3, b.w3), Or16(a.w2, b.w2), Or16(a.w1, b.w1), Or16(a.w0, b.w0))

\* `v as u16`
Low16(a) == a.w0

\* enum Interrupts
UseInterpreter == 1
Jump == 2
InvalidateCache == 3

\* Interrupts::use_interpreter
use_interpreter(addr) == Or64(Shl64(Ext64(UseInterpreter), 1), Ext64(addr))

\* Interrupts::jump
jump(addr) == Or64(Shl64(Ext64(Jump), 1), Ext64(addr))

\* Interrupts::invalidate
invalidate(next_pc, range_beg, range_end) ==
    Or64(Or64(Or64(Shl64(Ext64(range_beg), 3), Shl64(Ext64(range_end), 2)),
              Shl64(Ext64(InvalidateCache), 1)),
         Ext64(next_pc))

\* `mov ax, v`: the low word of rax replaced, the rest kept.
MovAx(rax, v) == [rax EXCEPT !.w0 = v % U16]

\* A tag taken from the low word, without the shift.
InterruptTagUnshifted(ret) == And16(Low16(ret), 65535)

\* `ret >> 16 & 0xFFFF`, the value handed to Interrupts::from.
InterruptTag(ret) == And16(Low16(Shr64(ret, 1)), 65535)

---------------------------------------------------------------------------
(* JIT: the compiler and the native blocks *)

\* The match of compile_block on one opcode: the native sequence emitted, named
\* after the instruction it implements ("invalid" for the panicking arms), and
\* whether the compiler breaks out of its loop after it.
JitMatch(w) ==
    LET emit(h) == [emit |-> h, stop |-> FALSE]
        last_(h) == [emit |-> h, stop |-> TRUE]
        unknown == [emit |-> "invalid", stop |-> TRUE]
        hi == Nibble(w, 1)
        lo == Nibble(w, 4)
        low8 == w % 256
    IN CASE hi = 0 -> (CASE w = 224 -> emit("00E0") [] w = 238 -> last_("00EE")
                         [] OTHER -> unknown)
         [] hi = 1 -> last_("1nnn")
         [] hi = 2 -> last_("2nnn")
         [] hi = 3 -> emit("3xkk")
         [] hi = 4 -> emit("4xkk")
         [] hi = 5 -> emit("5xy0")
         [] hi = 6 -> emit("6xkk")
         [] hi = 7 -> emit("7xkk")
         [] hi = 8 -> (CASE lo = 0 -> emit("8xy0") [] lo = 1 -> emit("8xy1")
                         [] lo = 2 -> emit("8xy2") [] lo = 3 -> emit("8xy3")
                         [] lo = 4 -> emit("8xy4") [] lo = 5 -> emit("8xy5")
                         [] lo = 6 -> emit("8xy6") [] lo = 7 -> emit("8xy7")
                         [] lo = 14 -> emit("8xyE") [] OTHER -> unknown)
         [] hi = 9 -> emit("9xy0")
         [] hi = 10 -> emit("Annn")
         [] hi = 11 -> last_("Bnnn")
         [] hi = 12 -> last_("Cxkk")
         [] hi = 13 -> last_("Dxyn")
         [] hi = 14 -> (CASE low8 = 158 -> emit("Ex9E") [] low8 = 161 -> emit("ExA1")
                          [] OTHER -> unknown)
         [] OTHER -> (CASE low8 = 7 -> emit("Fx07") [] low8 = 10 -> last_("Fx0A")
                        [] low8 = 21 -> emit("Fx15") [] low8 = 24 -> emit("Fx18")
                        [] low8 = 30 -> emit("Fx1E") [] low8 = 41 -> emit("Fx29")
                        [] low8 = 51 -> last_("Fx33") [] low8 = 85 -> last_("Fx55")
                        [] low8 = 101 -> emit("Fx65") [] OTHER -> unknown)

\* What a native sequence leaves behind: the State, and the value in rax when the
\* sequence returned or ended the block (<<>> when control falls into the next
\* sequence), or the fault of a store outside the State.
Falls(s) == [s |-> s, rax |-> <<>>, trap |-> FALSE]
Returns(s, rax) == [s |-> s, rax |-> <<rax>>, trap |-> FALSE]
Faults(s) == [s |-> s, rax |-> <<>>, trap |-> TRUE]

\* The early `ret` of the conditional skips, carrying Jump to current_pc + 4.
JitSkip(s, taken, current_pc) == IF taken THEN Returns(s, jump(current_pc + 4)) ELSE Falls(s)

\* keys[V[x]] as native code reads it, without a bounds check: past the sixteen
\* keys it reads whatever byte lies there (wild).
JitKey(s, x, wild) == IF s.V[x] <= 15 THEN s.keys[s.V[x]] ELSE wild

\* The bytes vals stored from memory[I] on by native code, without a bounds check:
\* the bytes past the end of memory land outside the array, which faults or is
\* lost (wild).
JitStore(s, vals, wild, rax) ==
    LET room == IF s.I >= MEMORY_SIZE THEN 0
                ELSE IF MEMORY_SIZE - s.I < Len(vals) THEN MEMORY_SIZE - s.I ELSE Len(vals)
        s1 == [s EXCEPT !.memory = ArrPutRun(s.memory, s.I, SubSeq(vals, 1, room), 0)]
    IN IF room < Len(vals) /\ wild THEN Faults(s1) ELSE Returns(s1, rax)

\* memory[a] as native code reads it: past the end of memory, whatever lies there.
JitLoad(s, a, wild) ==
    IF a < MEMORY_SIZE THEN MemGet(s.memory, a) ELSE IF wild THEN 255 ELSE 0

\* The native sequence compiled for `opcode` at current_pc, run on the State s.
JitOp(s, opcode, current_pc, wild) ==
    LET h == JitMatch(opcode).emit
        x == OpX(opcode)
        y == OpY(opcode)
        next_pc == current_pc + 2
    IN CASE h = "00E0" -> Falls(clear_screen(s))
         [] h = "00EE" ->
              IF s.SP > 0
              THEN Returns([s EXCEPT !.SP = s.SP - 1], MovAx(jump(0), s.stack[s.SP - 1]))
              ELSE Returns(s, use_interpreter(current_pc))
         [] h = "1nnn" -> Returns(s, jump(OpNNN(opcode)))
         [] h = "2nnn" ->
              IF s.SP < 15
              THEN Returns([s EXCEPT !.stack[s.SP] = next_pc, !.SP = s.SP + 1],
                           MovAx(jump(0), OpNNN(opcode)))
              ELSE Returns(s, use_interpreter(current_pc))
         [] h = "3xkk" -> JitSkip(s, s.V[x] = OpKK(opcode), current_pc)
         [] h = "4xkk" -> JitSkip(s, s.V[x] # OpKK(opcode), current_pc)
         [] h = "5xy0" -> JitSkip(s, s.V[x] = s.V[y], current_pc)
         [] h = "6xkk" -> Falls([s EXCEPT !.V[x] = OpKK(opcode)])
         [] h = "7xkk" -> Falls([s EXCEPT !.V[x] = (s.V[x] + OpKK(opcode)) % U8])
         [] h = "8xy0" -> Falls([s EXCEPT !.V[x] = s.V[y]])
         [] h = "8xy1" -> Falls([s EXCEPT !.V[x] = BitOr(s.V[x], s.V[y])])
         [] h = "8xy2" -> Falls([s EXCEPT !.V[x] = BitAnd(s.V[x], s.V[y])])
         [] h = "8xy3" -> Falls([s EXCEPT !.V[x] = BitXor(s.V[x], s.V[y])])
         [] h = "8xy4" ->
              Falls([[s EXCEPT !.V[x] = (s.V[x] + s.V[y]) % U8]
                        EXCEPT !.V[15] = IF s.V[x] + s.V[y] >= U8 THEN 1 ELSE 0])
         [] h = "8xy5" ->
              Falls([[s EXCEPT !.V[x] = (s.V[x] - s.V[y] + U8) % U8]
                        EXCEPT !.V[15] = IF s.V[x] < s.V[y] THEN 0 ELSE 1])
         [] h = "8xy6" ->
              Falls([[s EXCEPT !.V[x] = s.V[x] \div 2] EXCEPT !.V[15] = s.V[x] % 2])
         [] h = "8xy7" ->
              Falls([[s EXCEPT !.V[x] = (s.V[y] - s.V[x] + U8) % U8]
                        EXCEPT !.V[15] = IF s.V[y] < s.V[x] THEN 0 ELSE 1])
         [] h = "8xyE" ->
              Falls([[s EXCEPT !.V[x] = (s.V[x] * 2) % U8]
                        EXCEPT !.V[15] = (s.V[x] \div 128) % 2])
         [] h = "9xy0" -> JitSkip(s, s.V[x] # s.V[y], current_pc)
         [] h = "Annn" -> Falls([s EXCEPT !.I = OpNNN(opcode)])
         [] h = "Bnnn" -> Returns(s, MovAx(jump(OpNNN(opcode)), OpNNN(opcode) + s.V[0]))
         [] h \in {"Cxkk", "Dxyn", "Fx0A"} -> Returns(s, use_interpreter(current_pc))
         [] h = "Ex9E" -> JitSkip(s, JitKey(s, x, wild), current_pc)
         [] h = "ExA1" -> JitSkip(s, ~JitKey(s, x, wild), current_pc)
         [] h = "Fx07" -> Falls([s EXCEPT !.V[x] = s.delay])
         [] h = "Fx15" -> Falls([s EXCEPT !.delay = s.V[x]])
         [] h = "Fx18" -> Falls([s EXCEPT !.sound = s.V[x]])
         [] h = "Fx1E" -> Falls([s EXCEPT !.I = (s.I + s.V[x]) % U16])
         [] h = "Fx29" -> Falls([s EXCEPT !.I = s.V[x] * 5])
         [] h = "Fx33" ->
              JitStore(s, <<s.V[x] \div 100, (s.V[x] % 100) \div 10, (s.V[x] % 100) % 10>>,
                       wild, invalidate(next_pc, s.I, s.I + 2))
         [] h = "Fx55" ->
              JitStore(s, [i \in 1..(x + 1) |-> s.V[i - 1]], wild,
                       invalidate(next_pc, s.I, s.I + x))
         [] h = "Fx65" ->
              Falls([s EXCEPT !.V = [i \in 0..15 |->
                        IF i <= x THEN JitLoad(s, s.I + i, wild) ELSE s.V[i]]])
         [] OTHER -> Faults(s)

RECURSIVE CompileLoop(_, _, _)
\* The 'outer loop of compile_block from next_pc with the code emitted so far:
\* fetching past the end of memory and an unknown opcode panic.
CompileLoop(memory, next_pc, code) ==
    IF ~FetchOk(memory, next_pc) THEN [trap |-> TRUE, pc |-> next_pc, code |-> code]
    ELSE LET opcode == Fetch(memory, next_pc)
             m == JitMatch(opcode)
             emitted == Append(code, [opcode |-> opcode, pc |-> next_pc])
         IN IF m.emit = "invalid" THEN [trap |-> TRUE, pc |-> next_pc, code |-> code]
            ELSE IF m.stop THEN [trap |-> FALSE, pc |-> next_pc + 2, code |-> emitted]
            ELSE CompileLoop(memory, next_pc + 2, emitted)

\* compile_block: the native block for addr, [addr, end) with its code, or a panic.
compile_block(memory, addr) ==
    LET b == CompileLoop(memory, addr, <<>>)
    IN [trap |-> b.trap, cache |-> [pc |-> addr, end_pc |-> b.pc, code |-> b.code]]

RECURSIVE RunNative(_, _, _, _, _)
\* After the i-th native sequence left r: the block is over, or the next one runs.
RunNativeNext(r, code, i, wild, ops1) ==
    IF r.trap \/ r.rax # <<>> \/ i >= Len(code)
    THEN [s |-> r.s, rax |-> r.rax, trap |-> r.trap \/ r.rax = <<>>, ops |-> ops1]
    ELSE RunNative(r.s, code, i + 1, wild, ops1)

\* The native sequences of a block from the i-th on; ops gathers the guest
\* instructions whose sequence ran.
RunNative(s, code, i, wild, ops) ==
    RunNativeNext(JitOp(s, code[i].opcode, code[i].pc, wild), code, i, wild,
                  Append(ops, Executed(code[i].opcode, s.memory, code[i].pc)))

\* Caches::get: the native block that starts at pc, if any.
JitGet(caches, pc) == {e \in caches : e.pc = pc}

\* Caches::add
JitAdd(caches, cache) == caches \cup {cache}

\* Caches::invalidate: the blocks whose [pc, end_pc) meets [beg_addr, end_addr] are
\* dropped.
JitInvalidate(caches, beg_addr, end_addr) ==
    {e \in caches : ~(e.pc <= end_addr /\ beg_addr < e.end_pc)}

\* Interrupts::UseInterpreter: the interpreter's step r stands for the native
\* sequence that handed the instruction over.
JitInterpreted(r, ops, ret) ==
    StepResult(r.c, Len(ops) + r.n - 1, SubSeq(ops, 1, Len(ops) - 1) \o r.ops, ret)

\* A match whose InvalidateCache arm sets PC and leaves the table as it is.
JitInterruptKeeping(c, ret, ops, rnds, elapsed, ovf) ==
    CASE InterruptTag(ret) = UseInterpreter ->
           JitInterpreted(interpreter([c EXCEPT !.state.PC = Low16(ret)], rnds, elapsed, ovf),
                          ops, ret)
      [] InterruptTag(ret) \in {Jump, InvalidateCache} ->
           StepResult([c EXCEPT !.state.PC = Low16(ret)], Len(ops), ops, ret)
      [] OTHER -> StepResult(Trapped(c), Len(ops), ops, ret)

\* The match of Chip8::jit on the value ret that the block returned.
JitInterrupt(c, ret, ops, rnds, elapsed, ovf) ==
    CASE InterruptTag(ret) = UseInterpreter ->
           JitInterpreted(interpreter([c EXCEPT !.state.PC = Low16(ret)], rnds, elapsed, ovf),
                          ops, ret)
      [] InterruptTag(ret) = Jump ->
           StepResult([c EXCEPT !.state.PC = Low16(ret)], Len(ops), ops, ret)
      [] InterruptTag(ret) = InvalidateCache ->
           StepResult([c EXCEPT !.state.PC = Low16(ret),
                                !.jit_caches = JitInvalidate(c.jit_caches, Low16(Shr64(ret, 3)),
                                                             Low16(Shr64(ret, 2)))],
                      Len(ops), ops, ret)
      [] OTHER -> StepResult(Trapped(c), Len(ops), ops, ret)

\* The end of Chip8::jit once the block has run on the core c as `run`.
JitRan(c, run, rnds, again, ovf) ==
    IF run.trap
    THEN StepResult(Trapped([c EXCEPT !.state = run.s]), Len(run.ops), run.ops, Ext64(0))
    ELSE JitInterrupt([c EXCEPT !.state = run.s], run.rax[1], run.ops, rnds, again, ovf)

\* The block run on the core c after its call of handle_timers.
JitTimed(c, cache, rnds, again, ovf, wild) ==
    JitRan(c, RunNative(c.state, cache.code, 1, wild, <<>>), rnds, again, ovf)

\* The block found or compiled for PC, run: handle_timers first, then the native
\* sequences, then the match on the value returned.
JitRun(c, cache, rnds, elapsed, again, ovf, wild) ==
    JitTimed(handle_timers(c, elapsed), cache, rnds, again, ovf, wild)

\* The block compile_block made, added to the table and run, or its panic.
JitBuilt(c, built, rnds, elapsed, again, ovf, wild) ==
    IF built.trap THEN StepResult(Trapped(c), 0, <<>>, Ext64(0))
    ELSE JitRun([c EXCEPT !.jit_caches = JitAdd(c.jit_caches, built.cache)],
                built.cache, rnds, elapsed, again, ovf, wild)

\* Chip8::jit.  elapsed: the timer has expired when the block checks it; again:
\* it has expired once more when the interpreter, called for UseInterpreter,
\* checks it; wild: what native code finds outside the arrays it indexes.
jit(c, rnds, elapsed, again, ovf, wild) ==
    IF JitGet(c.jit_caches, c.state.PC) # {}
    THEN JitRun(c, CHOOSE e \in JitGet(c.jit_caches, c.state.PC) : TRUE,
                rnds, elapsed, again, ovf, wild)
    ELSE JitBuilt(c, compile_block(c.state.memory, c.state.PC),
                  rnds, elapsed, again, ovf, wild)

---------------------------------------------------------------------------
(* The step multiplexer *)

ExecutionMethod == {"Interpreter", "CachedInterpreter", "CachedInterpreter2",
                    "CachedInterpreter3"}

single_step(c, method, rnds, elapsed, ovf) ==
    CASE method = "Interpreter" -> interpreter(c, rnds, elapsed, ovf)
      [] method = "CachedInterpreter" -> cached_interpreter(c, rnds, elapsed, ovf)
      [] method = "CachedInterpreter2" -> cached_interpreter_2(c, rnds, elapsed, ovf)
      [] OTHER -> cached_interpreter_3(c, rnds, elapsed, ovf)

\* The core as one record, and back.
Core == [state |-> state,
         interpreter_caches |-> interpreter_caches,
         interpreter_caches_2 |-> interpreter_caches_2,
         interpreter_caches_3 |-> interpreter_caches_3,
         jit_caches |-> jit_caches,
         channel_out |-> channel_out,
         trapped |-> trapped]

SetCore(c) ==
    /\ state' = c.state
    /\ interpreter_caches' = c.interpreter_caches
    /\ interpreter_caches_2' = c.interpreter_caches_2
    /\ interpreter_caches_3' = c.interpreter_caches_3
    /\ jit_caches' = c.jit_caches
    /\ channel_out' = c.channel_out
    /\ trapped' = c.trapped

---------------------------------------------------------------------------
(* Bounds and inputs *)

MaxSteps == 4           \* backend steps in one run
MaxInputs == 3          \* host commands and timer expiries in one run

KeyInputs == {7, 16}    \* keys the host sends: a valid one and one above 0xF
RandBytes == {15, 240}  \* bytes the random generator returns

\* The ROMs (byte sequences) the runs start from.
Rom(words) ==
    [i \in 1..(2 * Len(words)) |->
        IF i % 2 = 1 THEN words[(i + 1) \div 2] \div 256 ELSE words[i \div 2] % 256]

\* A208 F155 0000 0000 DEAD BEEF
RomStoreData == Rom(<<41480, 61781, 0, 0, 57005, 48879>>)
\* 6112 1208 A207 F355 1204: the jump at 0x208 lies strictly inside the stored range
RomStoreOverBlock == Rom(<<24850, 4616, 41479, 62293, 4612>>)
\* A204 F033 1200: the BCD store rewrites the jump that follows it
RomBcdOverBlock == Rom(<<41476, 61491, 4608>>)
\* 120F A210 F055 120F 0000 0000 0000 00|12 02: a jump at the odd address 0x20F
RomOddBlock == Rom(<<4623, 41488, 61525, 4623, 0, 0, 0, 18>>) \o <<2>>
\* F10A 3107 1200 E19E 1200: wait for a key, then test it
RomWaitKey == Rom(<<61706, 12551, 4608, 57758, 4608>>)
\* 2206 C10F 1200 6A03 FA15 F207 00EE: call, timers, return, random
RomCall == Rom(<<8710, 49423, 4608, 27139, 64021, 61959, 238>>)

\* A200 1204 F155 1200: the store at 0x204 rewrites the block at 0x200
RomSwitch == Rom(<<41472, 4612, 61781, 4608>>)

Roms == {RomStoreData, RomStoreOverBlock, RomBcdOverBlock, RomOddBlock, RomWaitKey, RomCall,
         RomSwitch}

---------------------------------------------------------------------------
(* The interpreter-only reference run *)

RefCore(s, trap) == [state |-> s, channel_out |-> <<>>, trapped |-> trap]

RECURSIVE RefRun(_, _, _, _, _)
\* n interpreter instructions on the reference core, drawing the random bytes in
\* order; the timer check is given separately, where the backend made it.
RefRun(c, n, rnds, ri, ovf) ==
    IF n = 0 \/ c.trapped THEN c
    ELSE LET isRand == FetchOk(c.state.memory, c.state.PC)
                       /\ ILUT(Fetch(c.state.memory, c.state.PC)) = "Cxkk"
             r == interpreter(c, <<RndAt(rnds, ri)>>, FALSE, ovf)
         IN RefRun(r.c, n - 1, rnds, IF isRand THEN ri + 1 ELSE ri, ovf)

\* The timer check of the reference run after its instructions, for the backends
\* that make it last.
RefTimers(r, method, elapsed) ==
    IF method = "CachedInterpreter3" \/ r.trapped THEN r ELSE handle_timers(r, elapsed)

\* The reference run for one step of `method` that executed n instructions: the
\* timer check first for variant 3, last for the others.
RefStep(s, trap, method, n, rnds, elapsed, ovf) ==
    RefTimers(RefRun(IF method = "CachedInterpreter3"
                     THEN handle_timers(RefCore(s, trap), elapsed)
                     ELSE RefCore(s, trap),
                     n, rnds, 1, ovf),
              method, elapsed)

\* The number of Cxkk among cached instructions.
CountRand(instructions) ==
    Cardinality({i \in 1..Len(instructions) : instructions[i].execute = "Cxkk"})

\* The number of random bytes the next step of `method` can draw.
RandNeed(c, method) ==
    CASE method = "CachedInterpreter" /\ IndexOk(c.state.PC) ->
              CountRand(IF addr_to_index(c.state.PC) \in DOMAIN c.interpreter_caches
                        THEN c.interpreter_caches[addr_to_index(c.state.PC)].instructions
                        ELSE BuildLoop(c.state.memory, c.state.PC, <<>>, FALSE).instructions)
      [] method = "CachedInterpreter2" /\ IndexOk2(c.state.PC)
         /\ addr_to_index_2(c.state.PC) \in DOMAIN c.interpreter_caches_2
         /\ index_in_subcache(c.state.PC)
                \in DOMAIN c.interpreter_caches_2[addr_to_index_2(c.state.PC)] ->
              CountRand(c.interpreter_caches_2[addr_to_index_2(c.state.PC)]
                                              [index_in_subcache(c.state.PC)].instructions)
      [] method = "CachedInterpreter2" /\ IndexOk2(c.state.PC) ->
              CountRand(BuildLoop(c.state.memory, c.state.PC, <<>>, TRUE).instructions)
      [] method = "CachedInterpreter3" /\ IndexOk(c.state.PC)
         /\ addr_to_index(c.state.PC) \in DOMAIN c.interpreter_caches_3 ->
              IF c.interpreter_caches_3[addr_to_index(c.state.PC)].execute = "Cxkk"
              THEN 1 ELSE 0
      [] method \in {"Interpreter", "CachedInterpreter3"}
         /\ FetchOk(c.state.memory, c.state.PC) ->
              IF ILUT(Fetch(c.state.memory, c.state.PC)) = "Cxkk" THEN 1 ELSE 0
      [] OTHER -> 0

---------------------------------------------------------------------------
(* Initial state: Chip8::new on a ROM *)

\* `fresh`, the block the builder makes of the bytes now at PC, is the one variant 1
\* would replay, each of its opcodes is valid in the decoder table, and none
\* stores to guest memory.
RegionOf(c, fresh) ==
    /\ ~fresh.trap
    /\ addr_to_index(c.state.PC) \in DOMAIN c.interpreter_caches
           => c.interpreter_caches[addr_to_index(c.state.PC)] = fresh.cache
    /\ \A i \in 1..Len(fresh.cache.instructions) :
           /\ ILUT(fresh.cache.instructions[i].opcode) # "invalid"
           /\ fresh.cache.instructions[i].execute \notin {"Fx33", "Fx55"}

\* The block variant 1 would replay at PC is the decoded form of a straight-line
\* region of guest memory.
StraightLineRegion(c) == IndexOk(c.state.PC) /\ RegionOf(c, new_cache_block(c.state))

\* The record of the step taken last: the backend, what it executed and returned,
\* the inputs it consumed, whether the core and the interpreter-only run were in
\* the same State before it, and whether it stood at a straight-line region.
NoStep == [method |-> "none", n |-> 0, ops |-> <<>>, ret |-> 0, rnds |-> <<>>,
           elapsed |-> FALSE, synced |-> FALSE, region |-> FALSE]

\* The core thread before its first move: nothing enqueued, nothing done.
NoTick == [checked |-> FALSE, elapsed |-> FALSE,
           before |-> [delay |-> 0, sound |-> 0, channel_out |-> <<>>],
           after |-> [delay |-> 0, sound |-> 0, channel_out |-> <<>>]]

NoEvent == [kind |-> "none", cmd |-> [cmd |-> "none"], origin |-> "none", pending |-> 0,
            playing |-> FALSE, steps |-> 0, keyed |-> -1, since |-> 0, tick |-> NoTick]

IdleRun ==
    /\ channel_in = <<>>
    /\ sender = TRUE
    /\ pos = "drain"
    /\ sent = <<>>
    /\ applied = <<>>
    /\ event = NoEvent

InitRom(rom) ==
    /\ IdleRun
    /\ state = StateNew(rom)
    /\ play = FALSE
    /\ execution_method = "Interpreter"
    /\ interpreter_caches = EMPTY_TABLE
    /\ interpreter_caches_2 = EMPTY_TABLE
    /\ interpreter_caches_3 = EMPTY_TABLE
    /\ jit_caches = {}
    /\ channel_out = <<>>
    /\ trapped = FALSE
    /\ shadow = StateNew(rom)
    /\ shadowTrapped = FALSE
    /\ last = NoStep
    /\ storer = <<>>

Init ==
    \E rom \in Roms :
        /\ InitRom(rom)
        /\ budget = [steps |-> MaxSteps, inputs |-> MaxInputs]

---------------------------------------------------------------------------
(* Actions *)

\* The guest bytes that differ between two memories.
Changed(m0, m1) == {a \in DOMAIN m0 \cup DOMAIN m1 : MemGet(m0, a) # MemGet(m1, a)}

\* The effect of a step that returned r, ref being the reference run's outcome.
StepTaken(r, ref, rnds, elapsed) ==
    /\ SetCore(r.c)
    /\ shadow' = ref.state
    /\ shadowTrapped' = ref.trapped
    /\ last' = [method |-> execution_method, n |-> r.n, ops |-> r.ops, ret |-> r.ret,
                rnds |-> rnds, elapsed |-> elapsed,
                synced |-> (state = shadow /\ ~shadowTrapped),
                region |-> StraightLineRegion(Core)]
    /\ storer' = [a \in DOMAIN storer \cup Changed(state.memory, r.c.state.memory) |->
                     IF a \in Changed(state.memory, r.c.state.memory)
                     THEN execution_method ELSE storer[a]]
    /\ budget' = [steps |-> budget.steps - 1,
                  inputs |-> IF elapsed THEN budget.inputs - 1 ELSE budget.inputs]

StepWith(r, rnds, elapsed, ovf) ==
    StepTaken(r, RefStep(shadow, shadowTrapped, execution_method, r.n, rnds, elapsed, ovf),
              rnds, elapsed)

\* handle_channels: Risp8Command::SingleStep, one call of Chip8::single_step with
\* the inputs it consumes (random bytes, whether the timer has expired, the build).
CmdSingleStep ==
    /\ ~trapped
    /\ budget.steps > 0
    /\ \E elapsed \in (IF budget.inputs > 0 THEN BOOLEAN ELSE {FALSE}), ovf \in BOOLEAN :
       \E rnds \in [1..RandNeed(Core, execution_method) -> RandBytes] :
          StepWith(single_step(Core, execution_method, rnds, elapsed, ovf),
                   rnds, elapsed, ovf)
    /\ UNCHANGED <<play, execution_method>>
    /\ UNCHANGED runVars

\* A SetKey that lets a release replace a key already latched.
CmdSetKeyLatest(key, pressed) ==
    /\ ~trapped
    /\ budget.inputs > 0
    /\ state' = set_key(IF state.wait_key.tag = "Key"
                        THEN [state EXCEPT !.wait_key = Waiting] ELSE state, key, pressed)
    /\ shadow' = set_key(shadow, key, pressed)
    /\ budget' = [budget EXCEPT !.inputs = @ - 1]
    /\ UNCHANGED <<play, execution_method, interpreter_caches, interpreter_caches_2,
                   interpreter_caches_3, jit_caches, channel_out, trapped, shadowTrapped, last, storer>>
    /\ UNCHANGED runVars

\* handle_channels: Risp8Command::SetKey(key, pressed)
CmdSetKey(key, pressed) ==
    /\ ~trapped
    /\ budget.inputs > 0
    /\ state' = set_key(state, key, pressed)
    /\ shadow' = set_key(shadow, key, pressed)
    /\ budget' = [budget EXCEPT !.inputs = @ - 1]
    /\ UNCHANGED <<play, execution_method, interpreter_caches, interpreter_caches_2,
                   interpreter_caches_3, jit_caches, channel_out, trapped, shadowTrapped, last, storer>>
    /\ UNCHANGED runVars

\* handle_channels: Risp8Command::SetExecutionMethod(method)
CmdSetExecutionMethod(method) ==
    /\ ~trapped
    /\ budget.inputs > 0
    /\ execution_method' = method
    /\ budget' = [budget EXCEPT !.inputs = @ - 1]
    /\ UNCHANGED <<state, play, interpreter_caches, interpreter_caches_2,
                   interpreter_caches_3, jit_caches, channel_out, trapped, shadow, shadowTrapped, last,
                   storer>>
    /\ UNCHANGED runVars

Next ==
    \/ CmdSingleStep
    \/ \E key \in KeyInputs, pressed \in BOOLEAN : CmdSetKey(key, pressed)
    \/ \E method \in ExecutionMethod : CmdSetExecutionMethod(method)

Spec == Init /\ [][Next]_vars

---------------------------------------------------------------------------
(* Backend equivalence *)

\* The step just taken was made by `method`.
StepBy(method) == last.method = method

CachedMethods == {"CachedInterpreter", "CachedInterpreter2", "CachedInterpreter3"}

\* C1: at every instruction boundary the core driven by the selected backends is in
\* the same State as the interpreter-only run that executed the same number of
\* instructions with the same key events, random bytes and timer ticks, and one
\* has trapped exactly when the other has.
BackendEquivalence ==
    /\ trapped <=> shadowTrapped
    /\ ~trapped => state = shadow

---------------------------------------------------------------------------
(* Variant 1: block replay *)

\* C2: when the core and the interpreter-only run are in the same State and the
\* block variant 1 replays at PC is the decoded form of a straight-line region of
\* valid opcodes that does not write guest memory, one variant-1 step leaves the
\* State that the interpreter reaches by running once for each instruction the
\* replay executed (and traps exactly when the interpreter does).
BlockReplayMatchesInterpreter ==
    (StepBy("CachedInterpreter") /\ last.synced /\ last.region) => BackendEquivalence

\* A variant-1 step has replayed at least three instructions of such a block and
\* stopped on a nonzero control code.
BlockReplayed ==
    /\ StepBy("CachedInterpreter") /\ last.synced /\ last.region
    /\ last.n >= 3 /\ last.ret = 1 /\ ~trapped

---------------------------------------------------------------------------
(* Invalidation after a store *)

\* The step taken last ended on an Fx55 that stored V[0..x] at [I, I+x].
StoredFx55 ==
    /\ ~trapped
    /\ last.ops # <<>>
    /\ ILUT(last.ops[Len(last.ops)].opcode) = "Fx55"
    /\ last.ops[Len(last.ops)].opcode = last.ops[Len(last.ops)].fetched

StoreBeg == state.I
StoreEnd == state.I + OpX(last.ops[Len(last.ops)].opcode)

\* [pc, end_pc) meets [beg, end].
Intersects(pc, end_pc, beg, end) == pc <= end /\ beg < end_pc

\* C3: under variant 1, after a step in which Fx55 wrote [I, I+x], the table
\* holds no block whose source range [pc, end_pc) intersects [I, I+x].
Variant1StoreClearsBlocks ==
    (StepBy("CachedInterpreter") /\ StoredFx55) =>
        \A k \in DOMAIN interpreter_caches :
            ~Intersects(interpreter_caches[k].pc, interpreter_caches[k].end_pc,
                        StoreBeg, StoreEnd)

\* C4: under variant 2, after a step in which Fx55 wrote [I, I+x] with I >= 0x200,
\* every pool from the pool of I to the pool of I+x is empty and no pool holds a
\* block whose bytes [pc, end_pc) intersect [I, I+x].
Variant2StoreClearsPools ==
    (StepBy("CachedInterpreter2") /\ StoredFx55 /\ StoreBeg >= INITIAL_PC) =>
        /\ \A p \in addr_to_index_2(StoreBeg)..addr_to_index_2(StoreEnd) :
               ArrGet(interpreter_caches_2, p, EMPTY_POOL) = EMPTY_POOL
        /\ \A p \in DOMAIN interpreter_caches_2 :
               \A k \in DOMAIN interpreter_caches_2[p] :
                  ~Intersects(interpreter_caches_2[p][k].pc, interpreter_caches_2[p][k].end_pc,
                              StoreBeg, StoreEnd)

\* C5: under variant 3, after a step in which Fx55 wrote [I, I+x] with I >= 0x200,
\* no slot is filled for an address pc whose opcode bytes pc, pc+1 intersect
\* [I, I+x].
Variant3StoreClearsSlots ==
    (StepBy("CachedInterpreter3") /\ StoredFx55 /\ StoreBeg >= INITIAL_PC) =>
        \A k \in DOMAIN interpreter_caches_3 :
            ~Intersects(k + INITIAL_PC, k + INITIAL_PC + 2, StoreBeg, StoreEnd)

\* C6: every cache entry a cached-interpreter variant executes equals the decode of
\* what guest memory holds at its address when it runs, whatever instruction
\* (Fx55 or the BCD store Fx33) stored there.
NoStaleReplay ==
    last.method \in CachedMethods =>
        \A i \in 1..Len(last.ops) : last.ops[i].opcode = last.ops[i].fetched

\* C7: a cached-interpreter variant never executes an entry that differs from guest
\* memory at bytes another backend stored while it was the selected one.
NoStaleReplayAfterSwitch ==
    last.method \in CachedMethods =>
        \A i \in 1..Len(last.ops) :
            last.ops[i].opcode # last.ops[i].fetched =>
                \A a \in {last.ops[i].pc, last.ops[i].pc + 1} \cap DOMAIN storer :
                    storer[a] = last.method

\* The program A208 F155 0000 0000 DEAD BEEF has just run as one variant-1 step:
\* the block built at 0x200, covering 0x200..0x204, set I = 0x208 and stored V0, V1.
RanA208F155 ==
    /\ StepBy("CachedInterpreter") /\ ~trapped
    /\ Len(last.ops) = 2
    /\ last.ops[1] = [pc |-> INITIAL_PC, opcode |-> 41480, fetched |-> 41480]
    /\ last.ops[2] = [pc |-> INITIAL_PC + 2, opcode |-> 61781, fetched |-> 61781]

StoredV0V1 ==
    /\ MemGet(state.memory, INITIAL_PC + 8) = state.V[0]
    /\ MemGet(state.memory, INITIAL_PC + 9) = state.V[1]

\* C8 (as stated): A208 F155 under variant 1 ends with memory[0x208] = V[0],
\* memory[0x209] = V[1] and the variant-1 table slot for PC 0x200 cleared.
StoreScenarioClearsSlot ==
    RanA208F155 =>
        /\ StoredV0V1
        /\ addr_to_index(INITIAL_PC) \notin DOMAIN interpreter_caches

\* C8 (amended): A208 F155 under variant 1 ends with memory[0x208] = V[0],
\* memory[0x209] = V[1] and the slot for PC 0x200 still holding the block
\* 0x200..0x204, which contains neither end of the stored range.
StoreScenarioKeepsSlot ==
    RanA208F155 =>
        /\ StoredV0V1
        /\ addr_to_index(INITIAL_PC) \in DOMAIN interpreter_caches
        /\ interpreter_caches[addr_to_index(INITIAL_PC)].pc = INITIAL_PC
        /\ interpreter_caches[addr_to_index(INITIAL_PC)].end_pc = INITIAL_PC + 4

\* The scenario has run and the bytes DE AD at 0x208 have been replaced.
StoreScenarioRan ==
    /\ RanA208F155
    /\ state.I = INITIAL_PC + 8
    /\ MemGet(state.memory, INITIAL_PC + 8) = 0
    /\ MemGet(state.memory, INITIAL_PC + 10) = 190

---------------------------------------------------------------------------
(* Keys *)

\* The transition is a backend step that executed exactly one instruction, an
\* Fx0A read from current memory, with no timer expiry in it.
WaitKeyStep ==
    /\ budget'.steps # budget.steps
    /\ ~trapped' /\ ~last'.elapsed
    /\ Len(last'.ops) = 1
    /\ ILUT(last'.ops[1].opcode) = "Fx0A"
    /\ last'.ops[1].opcode = last'.ops[1].fetched

\* The effect of Fx0A at address `at` on register x, by the wait_key it finds.
WaitKeyEffect(x, at) ==
    CASE state.wait_key = NotWaiting ->
            state' = [state EXCEPT !.wait_key = Waiting] /\ state'.PC = at /\ last'.ret = 1
      [] state.wait_key = Waiting ->
            state' = state /\ state'.PC = at /\ last'.ret = 1
      [] OTHER ->
            /\ state' = [state EXCEPT !.V[x] = state.wait_key.key, !.wait_key = NotWaiting,
                                      !.PC = at + 2]
            /\ last'.ret = 0

\* The transition is a backend step that executed no Fx0A.
OtherStep ==
    /\ budget'.steps # budget.steps
    /\ \A i \in 1..Len(last'.ops) : ILUT(last'.ops[i].opcode) # "Fx0A"

\* Two handler results that differ by the wait_key wk at most.
SameButWaitKey(r1, r2, wk) ==
    /\ r2.trap = r1.trap
    /\ r2.r = r1.r
    /\ r2.s = [r1.s EXCEPT !.wait_key = wk]

\* The handler h of the opcode w at PC does the same whatever wait_key holds and
\* leaves it as it found it.
WaitKeyUnreadBy(h, w, s) ==
    \A wk \in {NotWaiting, Waiting, Key(7)}, rnd \in RandBytes, ovf \in BOOLEAN :
        SameButWaitKey(Execute(h, s, w, rnd, ovf),
                       Execute(h, [s EXCEPT !.wait_key = wk], w, rnd, ovf), wk)

\* So does the handler of the instruction at PC, when it is not Fx0A.
WaitKeyUnread ==
    (FetchOk(state.memory, state.PC) /\ ILUT(Fetch(state.memory, state.PC)) # "Fx0A") =>
        WaitKeyUnreadBy(ILUT(Fetch(state.memory, state.PC)), Fetch(state.memory, state.PC),
                        [state EXCEPT !.PC = state.PC + 2])

\* C9: Fx0A found NotWaiting sets Waiting, returns 1 and leaves PC on itself; found
\* Waiting it changes nothing, returns 1 and leaves PC on itself; found Key(k) it
\* writes V[x] = k, resets NotWaiting, returns 0 and leaves PC on the next
\* instruction; no other handler reads or writes wait_key.
WaitKeyStateMachine ==
    /\ [][WaitKeyStep => WaitKeyEffect(OpX(last'.ops[1].opcode), last'.ops[1].pc)]_vars
    /\ [][OtherStep => state'.wait_key = state.wait_key]_vars
    /\ []WaitKeyUnread

\* An Fx0A has found Key(7), written it to V[1] and gone back to NotWaiting.
KeyDelivered ==
    /\ ~trapped
    /\ Len(last.ops) = 1 /\ ILUT(last.ops[1].opcode) = "Fx0A"
    /\ last.ret = 0
    /\ state.V[1] = 7 /\ state.wait_key = NotWaiting
    /\ state.PC = last.ops[1].pc + 2

\* C10: set_key(k, pressed) changes wait_key only when wait_key = Waiting, pressed
\* is false, k <= 15 and keys[k] was true, and then to Key(k); it always sets
\* keys[k] = pressed for k <= 15, touches no other field, and changes nothing at
\* all for k > 15.
SetKeyFrame ==
    \A key \in 0..16, pressed \in BOOLEAN :
        LET fires == state.wait_key = Waiting /\ ~pressed /\ state.keys[key]
        IN set_key(state, key, pressed) =
              IF key > 15 THEN state
              ELSE [state EXCEPT !.keys[key] = pressed,
                                 !.wait_key = IF fires THEN Key(key) ELSE @]

\* Key 7 went down and up while the guest waited: the release has fired the wait.
ReleaseFiredWait == state.wait_key = Key(7) /\ ~state.keys[7]

---------------------------------------------------------------------------
(* The core loop and the command channel *)

\* Risp8Command
SetKey(key, pressed) == [cmd |-> "SetKey", key |-> key, pressed |-> pressed]
GetScreen == [cmd |-> "GetScreen"]
Play == [cmd |-> "Play"]
Pause == [cmd |-> "Pause"]
SingleStep == [cmd |-> "SingleStep"]
SetExecutionMethod(method) == [cmd |-> "SetExecutionMethod", method |-> method]
Exit == [cmd |-> "Exit"]

MaxCmds == 3            \* commands the host enqueues after selecting the backend
MaxTicks == 1           \* timer expiries in one run

\* The commands the host sends once it has selected the backend.
Commands == {SetKey(7, TRUE), SetKey(7, FALSE), GetScreen, Play, Pause, SingleStep, Exit}

\* F00A: wait for a key into V0
RomF00A == Rom(<<61450>>)
\* 6102 F118 F115 D001 1208: start both timers, draw the first font row, then spin
RomTimers == Rom(<<24834, 61720, 61717, 53249, 4616>>)

\* the empty ROM: the first word fetched is 0000, which no pattern matches
RomEmpty == <<>>

RunRoms == {RomF00A, RomTimers, RomEmpty}

\* The histories the reference run of Spec keeps; the core loop leaves them alone.
refVars == <<shadow, shadowTrapped, storer>>

RunInit ==
    \E rom \in RunRoms :
        /\ InitRom(rom)
        /\ budget = [cmds |-> MaxCmds, ticks |-> MaxTicks]

\* A recv that takes the newest command in flight.
recv_newest(queue, alive) ==
    IF queue # <<>>
    THEN [ok |-> TRUE, err |-> FALSE, cmd |-> queue[Len(queue)],
          rest |-> SubSeq(queue, 1, Len(queue) - 1)]
    ELSE [ok |-> FALSE, err |-> ~alive, cmd |-> [cmd |-> "none"], rest |-> queue]

\* Receiver::recv on the command channel: the oldest command in flight; an error
\* once the channel is empty and the sender is gone; blocked otherwise.
recv(queue, alive) ==
    IF queue # <<>> THEN [ok |-> TRUE, err |-> FALSE, cmd |-> Head(queue), rest |-> Tail(queue)]
    ELSE [ok |-> FALSE, err |-> ~alive, cmd |-> [cmd |-> "none"], rest |-> queue]

\* A match in which SingleStep also sets the play flag.
PlayAfterStepPlays(cmd, p) ==
    IF cmd \in {Play, SingleStep} THEN TRUE ELSE IF cmd = Pause THEN FALSE ELSE p

\* The play flag after handle_channels has matched cmd.
PlayAfter(cmd, p) ==
    IF cmd = Play THEN TRUE ELSE IF cmd = Pause THEN FALSE ELSE p

\* An answer to GetScreen that holds the blank screen.
ScreenAnswerBlank(s) == Screen(DEFAULT_SCREEN)

\* The answer to GetScreen: a copy of the screen of the State.
ScreenAnswer(s) == Screen(s.screen)

\* A match in which Exit does not end the loop.
PosAfterKeepsDraining(cmd) == "drain"

\* Where the core thread stands once handle_channels has matched cmd: Exit makes
\* handle_channels return true and run break.
PosAfter(cmd) == IF cmd = Exit THEN "returned" ELSE "drain"

\* The host enqueues a command (Sender::send on an unbounded channel).
HostSend(cmd) ==
    /\ sender
    /\ budget.cmds > 0
    /\ channel_in' = Append(channel_in, cmd)
    /\ sent' = Append(sent, cmd)
    /\ budget' = [budget EXCEPT !.cmds = @ - 1]
    /\ UNCHANGED <<state, play, execution_method, interpreter_caches, interpreter_caches_2,
                   interpreter_caches_3, jit_caches, channel_out, trapped, last, sender, pos, applied,
                   event>>
    /\ UNCHANGED refVars

\* The host selects the backend before anything else.
HostSelect(method) ==
    /\ sender
    /\ sent = <<>>
    /\ channel_in' = Append(channel_in, SetExecutionMethod(method))
    /\ sent' = Append(sent, SetExecutionMethod(method))
    /\ UNCHANGED <<state, play, execution_method, interpreter_caches, interpreter_caches_2,
                   interpreter_caches_3, jit_caches, channel_out, trapped, last, budget, sender, pos,
                   applied, event>>
    /\ UNCHANGED refVars

\* The host drops its Sender<Risp8Command>.
HostDrop ==
    /\ sender
    /\ sender' = FALSE
    /\ UNCHANGED <<state, play, execution_method, interpreter_caches, interpreter_caches_2,
                   interpreter_caches_3, jit_caches, channel_out, trapped, last, budget, channel_in, pos,
                   sent, applied, event>>
    /\ UNCHANGED refVars

\* The core thread is inside Chip8::run.
Running == ~trapped /\ pos # "returned"

Min(a, b) == IF a < b THEN a ELSE b

\* What the timer check of a step found and did: before it, and after it.
TimerView(c) ==
    [delay |-> c.state.delay, sound |-> c.state.sound, channel_out |-> c.channel_out]

TickOf(cb, elapsed) ==
    [checked |-> TRUE, elapsed |-> elapsed, before |-> TimerView(cb),
     after |-> TimerView(handle_timers(cb, elapsed))]

\* The timer check of the step of `method` that returned r from the core c0, r0
\* being the same step with the timer not expired: variant 3 checks first, the
\* others last, and only if the instructions did not panic.
StepTick(method, c0, r0, elapsed) ==
    IF method = "CachedInterpreter3" THEN TickOf(c0, elapsed)
    ELSE IF r0.c.trapped THEN NoTick
    ELSE TickOf(r0.c, elapsed)

\* The effect of one call of Chip8::single_step that returned r.
RunStepTaken(r, r0, rnds, elapsed, origin, cmd, queue) ==
    /\ SetCore(r.c)
    /\ last' = [method |-> execution_method, n |-> r.n, ops |-> r.ops, ret |-> r.ret,
                rnds |-> rnds, elapsed |-> elapsed, synced |-> FALSE, region |-> FALSE]
    /\ event' = [kind |-> "step", cmd |-> cmd, origin |-> origin, pending |-> Len(queue),
                 playing |-> play, steps |-> 1, keyed |-> event.keyed,
                 since |-> Min(event.since + 1, 2),
                 tick |-> StepTick(execution_method, Core, r0, elapsed)]
    /\ budget' = [budget EXCEPT !.ticks = IF elapsed THEN @ - 1 ELSE @]

RunStepWith(r0, rnds, elapsed, ovf, origin, cmd, queue) ==
    RunStepTaken(IF elapsed THEN single_step(Core, execution_method, rnds, elapsed, ovf)
                 ELSE r0,
                 r0, rnds, elapsed, origin, cmd, queue)

\* A step that sends the screen while it runs.
RunStepAnswering(origin, cmd, queue) ==
    \E ovf \in BOOLEAN :
    \E rnds \in [1..RandNeed(Core, execution_method) -> RandBytes] :
        RunStepWith([single_step(Core, execution_method, rnds, FALSE, ovf)
                        EXCEPT !.c.channel_out = Append(@, ScreenAnswer(state))],
                    rnds, FALSE, ovf, origin, cmd, queue)

\* One call of Chip8::single_step with the inputs it consumes.
RunStep(origin, cmd, queue) ==
    \E elapsed \in (IF budget.ticks > 0 THEN BOOLEAN ELSE {FALSE}), ovf \in BOOLEAN :
    \E rnds \in [1..RandNeed(Core, execution_method) -> RandBytes] :
        RunStepWith(single_step(Core, execution_method, rnds, FALSE, ovf),
                    rnds, elapsed, ovf, origin, cmd, queue)

\* The record of a command applied without a step.
CmdEvent(cmd, queue) ==
    [kind |-> "cmd", cmd |-> cmd, origin |-> "none", pending |-> Len(queue),
     playing |-> play, steps |-> event.steps,
     keyed |-> IF cmd.cmd = "SetKey" /\ event.keyed = -1 THEN event.steps ELSE event.keyed,
     since |-> IF cmd.cmd = "SetKey" THEN 0 ELSE event.since,
     tick |-> NoTick]

\* A match whose SingleStep arm steps only while the core is playing.
ApplyCommandStepIfPlaying(cmd, queue) ==
    /\ channel_in' = queue
    /\ applied' = Append(applied, cmd)
    /\ play' = PlayAfter(cmd, play)
    /\ execution_method' = IF cmd.cmd = "SetExecutionMethod" THEN cmd.method
                           ELSE execution_method
    /\ pos' = PosAfter(cmd)
    /\ IF cmd = SingleStep /\ play THEN RunStep("cmd", cmd, queue)
       ELSE /\ state' = IF cmd.cmd = "SetKey" THEN set_key(state, cmd.key, cmd.pressed)
                        ELSE state
            /\ channel_out' = IF cmd = GetScreen THEN Append(channel_out, ScreenAnswer(state))
                              ELSE channel_out
            /\ event' = CmdEvent(cmd, queue)
            /\ UNCHANGED <<interpreter_caches, interpreter_caches_2, interpreter_caches_3, jit_caches,
                           trapped, last, budget>>

\* The match of handle_channels on the command received.
ApplyCommand(cmd, queue) ==
    /\ channel_in' = queue
    /\ applied' = Append(applied, cmd)
    /\ play' = PlayAfter(cmd, play)
    /\ execution_method' = IF cmd.cmd = "SetExecutionMethod" THEN cmd.method
                           ELSE execution_method
    /\ pos' = PosAfter(cmd)
    /\ IF cmd = SingleStep THEN RunStep("cmd", cmd, queue)
       ELSE /\ state' = IF cmd.cmd = "SetKey" THEN set_key(state, cmd.key, cmd.pressed)
                        ELSE state
            /\ channel_out' = IF cmd = GetScreen THEN Append(channel_out, ScreenAnswer(state))
                              ELSE channel_out
            /\ event' = CmdEvent(cmd, queue)
            /\ UNCHANGED <<interpreter_caches, interpreter_caches_2, interpreter_caches_3, jit_caches,
                           trapped, last, budget>>

\* handle_channels, one turn of `while !self.channel_in.is_empty()` that finds a
\* command: recv, then the match (an Err of recv ends run).
CoreReceive(r) ==
    IF r.err
    THEN /\ pos' = "returned"
         /\ event' = [event EXCEPT !.kind = "disconnected"]
         /\ UNCHANGED <<state, play, execution_method, interpreter_caches,
                        interpreter_caches_2, interpreter_caches_3, jit_caches, channel_out, trapped,
                        last, budget, channel_in, applied>>
    ELSE ApplyCommand(r.cmd, r.rest)

CoreCommand ==
    /\ Running
    /\ pos = "drain"
    /\ channel_in # <<>>
    /\ CoreReceive(recv(channel_in, sender))
    /\ UNCHANGED <<sender, sent>>
    /\ UNCHANGED refVars

\* handle_channels finds the channel empty and returns false.
CoreDrained ==
    /\ Running
    /\ pos = "drain"
    /\ channel_in = <<>>
    /\ pos' = "loop"
    /\ event' = [event EXCEPT !.kind = "drained", !.tick = NoTick]
    /\ UNCHANGED <<state, play, execution_method, interpreter_caches, interpreter_caches_2,
                   interpreter_caches_3, jit_caches, channel_out, trapped, last, budget, channel_in,
                   sender, sent, applied>>
    /\ UNCHANGED refVars

\* Chip8::run after handle_channels: `if self.play { self.single_step(); }`.
CoreLoop ==
    /\ Running
    /\ pos = "loop"
    /\ pos' = "drain"
    /\ IF play THEN RunStep("loop", [cmd |-> "none"], channel_in)
       ELSE /\ event' = [event EXCEPT !.kind = "idle", !.tick = NoTick]
            /\ UNCHANGED <<state, interpreter_caches, interpreter_caches_2,
                           interpreter_caches_3, jit_caches, channel_out, trapped, last, budget>>
    /\ UNCHANGED <<play, execution_method, channel_in, sender, sent, applied>>
    /\ UNCHANGED refVars

CoreNext == CoreCommand \/ CoreDrained \/ CoreLoop

RunNext ==
    \/ \E cmd \in Commands : HostSend(cmd)
    \/ \E method \in ExecutionMethod : HostSelect(method)
    \/ HostDrop
    \/ CoreCommand
    \/ CoreDrained
    \/ CoreLoop

RunSpec == RunInit /\ [][RunNext]_vars

\* The core thread can move: inside run it is never blocked (handle_channels
\* polls is_empty and calls recv only on a channel that holds a command).
CoreEnabled == Running

\* The core thread moved: each of its actions dequeues a command or changes pos,
\* and no action of the host does either.
CoreMoved == pos' # pos \/ applied' # applied

\* The core thread is scheduled as long as it can move: weak fairness of CoreNext,
\* with ENABLED <<CoreNext>>_vars written as the state predicate it equals.
FairRunSpec ==
    /\ RunSpec
    /\ WF_vars(CoreDrained)
    /\ ([]<>(~CoreEnabled) \/ []<><<CoreMoved>>_vars)

---------------------------------------------------------------------------
(* Waiting for a key under the core loop *)

\* The key commands the core has applied, in order.
KeysApplied == SelectSeq(applied, LAMBDA c : c.cmd = "SetKey")

\* The run started from the single instruction F00A (no instruction of this run
\* stores to memory).
RunsF00A == state.memory = new_memory(RomF00A)

\* After at least one step, SetKey(7, true) then SetKey(7, false) were applied and
\* no other key command; exactly one step was made since.
PressReleaseThenStep ==
    /\ RunsF00A
    /\ KeysApplied = <<SetKey(7, TRUE), SetKey(7, FALSE)>>
    /\ event.keyed = 1
    /\ event.since = 1

---------------------------------------------------------------------------
(* Order of the commands *)

\* The command of one of `kinds` applied last, `default` if there is none.
LastApplied(kinds, default) ==
    LET idx == {i \in 1..Len(applied) : applied[i].cmd \in kinds}
    IN IF idx = {} THEN default
       ELSE applied[CHOOSE i \in idx : \A j \in idx : j <= i]

\* C12: the core applies the commands in the order they were enqueued, each once
\* and none skipped: the commands applied so far, followed by those still in
\* flight, are the commands sent, and the play flag, the selected backend and the
\* key are those of the command of their kind applied last.
CommandsAppliedInOrder ==
    /\ sent = applied \o channel_in
    /\ play = (LastApplied({"Play", "Pause"}, Pause) = Play)
    /\ execution_method =
           LastApplied({"SetExecutionMethod"}, SetExecutionMethod("Interpreter")).method
    /\ state.keys[7] = LastApplied({"SetKey"}, SetKey(7, FALSE)).pressed

\* Two different commands were applied while two more were waiting behind them.
AppliedTwoOfFour ==
    /\ Len(applied) = 2 /\ applied[1] # applied[2]
    /\ Len(channel_in) = 2 /\ channel_in[1] # channel_in[2]

---------------------------------------------------------------------------
(* Commands pending when a step begins *)

\* C13: when a backend step begins, every command enqueued before that moment has
\* been applied: no command is in flight.
StepBeginsWithEmptyQueue == event.kind = "step" => event.pending = 0

---------------------------------------------------------------------------
(* The play flag and the steps of the loop *)

\* This move of the core thread made exactly one step of the selected backend.
BackendStepMade(origin) ==
    /\ event'.kind = "step" /\ event'.origin = origin
    /\ \E elapsed \in BOOLEAN, ovf \in BOOLEAN :
       \E rnds \in [1..RandNeed(Core, execution_method) -> RandBytes] :
           Core' = single_step(Core, execution_method, rnds, elapsed, ovf).c

\* This move of the core thread made no step: no cache, no field of State other
\* than the keys and no timer changed.
NoBackendStepMade ==
    /\ event'.kind # "step"
    /\ UNCHANGED <<interpreter_caches, interpreter_caches_2, interpreter_caches_3, jit_caches, trapped>>
    /\ [state' EXCEPT !.keys = state.keys, !.wait_key = state.wait_key] = state
    /\ channel_out' \in {channel_out, Append(channel_out, Screen(state.screen))}

\* C14: the core starts paused with the interpreter selected; while the play flag
\* is false no step is made except exactly one for each SingleStep processed;
\* while it is true the loop makes exactly one step of the selected backend after
\* each drain; the play flag changes only on Play (to true) and Pause (to false).
PlayFlagGovernsLoop ==
    /\ [](applied = <<>> => (~play /\ execution_method = "Interpreter"))
    /\ [][CoreMoved =>
             IF pos = "loop"
             THEN IF play THEN BackendStepMade("loop") ELSE NoBackendStepMade
             ELSE IF applied' = Append(applied, SingleStep) THEN BackendStepMade("cmd")
             ELSE NoBackendStepMade]_vars
    /\ [][play' # play =>
             /\ pos = "drain"
             /\ applied' = Append(applied, IF play' THEN Play ELSE Pause)]_vars

\* The loop stepped while playing and, once Pause was applied, passed without a step.
PausedAfterPlaying ==
    applied = <<Play, Pause>> /\ event.kind = "idle" /\ event.steps = 1

---------------------------------------------------------------------------
(* Exit and the disconnection of the host *)

ExitSent == \E i \in 1..Len(sent) : sent[i] = Exit
ExitApplied == \E i \in 1..Len(applied) : applied[i] = Exit

\* Once the core has dequeued Exit it makes no step, applies no command and sends
\* no answer.
NothingAfterExit ==
    [][ExitApplied =>
          UNCHANGED <<state, play, execution_method, interpreter_caches,
                      interpreter_caches_2, interpreter_caches_3, jit_caches, channel_out, trapped,
                      applied, pos, event>>]_vars

DisconnectEndsRun == (~sender /\ ~ExitSent) ~> (pos = "returned" \/ trapped)

---------------------------------------------------------------------------
(* Screen answers *)

\* The number of elements of seq that satisfy the test.
Count(seq, Test(_)) == Cardinality({i \in 1..Len(seq) : Test(seq[i])})

IsScreen(a) == a.answer = "Screen"
IsGetScreen(c) == c = GetScreen

\* C17: each GetScreen processed produces exactly one Screen answer, whose
\* content is the screen of the State at that moment; no Screen answer is
\* produced without a GetScreen; answers are only ever added at the end of the
\* answer channel, in the order they are emitted.
ScreenAnsweredOncePerGetScreen ==
    /\ [](Count(channel_out, IsScreen) = Count(applied, IsGetScreen))
    /\ [][applied' = Append(applied, GetScreen) =>
             channel_out' = Append(channel_out, Screen(state.screen))]_vars
    /\ [][Count(channel_out', IsScreen) # Count(channel_out, IsScreen) =>
             applied' = Append(applied, GetScreen)]_vars
    /\ [][Len(channel_out') >= Len(channel_out)
          /\ SubSeq(channel_out', 1, Len(channel_out)) = channel_out]_vars

\* A Screen answer that shows lit cells was sent after a sound answer.
LitScreenAnswered ==
    /\ Len(channel_out) = 2
    /\ ~IsScreen(channel_out[1])
    /\ IsScreen(channel_out[2]) /\ channel_out[2].screen # DEFAULT_SCREEN

---------------------------------------------------------------------------
(* Timer ticks *)

---------------------------------------------------------------------------
(* The handlers one call at a time *)

MaxCalls == 2           \* handler calls in one run

\* The States the calls start from: the State of an empty ROM after instructions
\* that set I, V0, V1, VF and the stack depth.
HandlerStates ==
    {[StateNew(<<>>) EXCEPT !.I = i, !.V[0] = v0, !.V[1] = v1, !.V[15] = vf, !.SP = sp] :
        i \in {0, 4095}, v0 \in {0, 62, 70}, v1 \in {0, 31}, vf \in {0, 9}, sp \in {0, 15}}

\* The opcodes called: each pattern of INSTRUCTION_FORMATS, and words that match none.
\* 00E0 00EE 1204 2204 303E 403E 5010 6007 7001
\* 8010 8011 8012 8013 8014 8015 8016 8017 801E
\* 9010 A005 B204 C00F D015 E09E E0A1
\* F007 F00A F015 F018 F01E F029 F033 F055 F155 F065
\* DF11 D0F1 0000 F0FF
HandlerOpcodes ==
    {224, 238, 4612, 8708, 12350, 16446, 20496, 24583, 28673,
     32784, 32785, 32786, 32787, 32788, 32789, 32790, 32791, 32798,
     36880, 40965, 45572, 49167, 53269, 57502, 57505,
     61447, 61450, 61461, 61464, 61470, 61481, 61491, 61525, 61781, 61541,
     57105, 53489, 0, 61695}

\* The record of the handler called last.
NoCall == [handler |-> "none", opcode |-> 0, before |-> StateNew(<<>>), r |-> 0,
           trap |-> FALSE]

HandlerInit ==
    /\ IdleRun
    /\ state \in HandlerStates
    /\ play = FALSE
    /\ execution_method = "Interpreter"
    /\ interpreter_caches = EMPTY_TABLE
    /\ interpreter_caches_2 = EMPTY_TABLE
    /\ interpreter_caches_3 = EMPTY_TABLE
    /\ jit_caches = {}
    /\ channel_out = <<>>
    /\ trapped = FALSE
    /\ shadow = StateNew(<<>>)
    /\ shadowTrapped = FALSE
    /\ storer = <<>>
    /\ last = NoCall
    /\ budget = [calls |-> MaxCalls]

\* The effect of the call of the handler of `opcode` that returned res.
Called(opcode, res) ==
    /\ state' = IF res.trap THEN state ELSE res.s
    /\ trapped' = res.trap
    /\ last' = [handler |-> ILUT(opcode), opcode |-> opcode, before |-> state,
                r |-> res.r, trap |-> res.trap]
    /\ budget' = [budget EXCEPT !.calls = @ - 1]

\* `(State::ILUT[opcode])(&mut state, opcode)` on the State as the callers hand
\* it over (PC already past the instruction).
CallHandler(opcode) ==
    /\ ~trapped
    /\ budget.calls > 0
    /\ \E rnd \in RandBytes, ovf \in BOOLEAN :
          Called(opcode, Execute(ILUT(opcode), state, opcode, rnd, ovf))
    /\ UNCHANGED <<play, execution_method, interpreter_caches, interpreter_caches_2,
                   interpreter_caches_3, jit_caches, channel_out>>
    /\ UNCHANGED refVars
    /\ UNCHANGED runVars

HandlerNext == \E opcode \in HandlerOpcodes : CallHandler(opcode)

HandlerSpec == HandlerInit /\ [][HandlerNext]_vars

---------------------------------------------------------------------------
(* Control codes of the handlers *)

Jumps == {"00EE", "1nnn", "2nnn", "Bnnn"}
Skips == {"3xkk", "4xkk", "5xy0", "9xy0", "Ex9E", "ExA1"}

\* The condition of the conditional skip h holds in the State b for the opcode w.
SkipTaken(h, b, w) ==
    CASE h = "3xkk" -> b.V[OpX(w)] = OpKK(w)
      [] h = "4xkk" -> b.V[OpX(w)] # OpKK(w)
      [] h = "5xy0" -> b.V[OpX(w)] = b.V[OpY(w)]
      [] h = "9xy0" -> b.V[OpX(w)] # b.V[OpY(w)]
      [] h = "Ex9E" -> b.keys[b.V[OpX(w)]]
      [] OTHER -> ~b.keys[b.V[OpX(w)]]

\* The control-code contract for the handler h that returned r, having turned the
\* State b into a on the opcode w.
ControlCodeOf(h, w, b, a, r) ==
    /\ h \in Jumps => r = 1
    /\ h \in Skips =>
          /\ r = IF SkipTaken(h, b, w) THEN 1 ELSE 0
          /\ a.PC = IF SkipTaken(h, b, w) THEN b.PC + 2 ELSE b.PC
    /\ h = "Fx0A" => r = IF a.wait_key = Waiting THEN 1 ELSE 0
    /\ h = "Fx55" => (r > 1 /\ r \div U16 = b.I /\ r % U16 = b.I + OpX(w))
    /\ h \notin Jumps \cup Skips \cup {"Fx0A", "Fx55"} => (r = 0 /\ a.PC = b.PC)
    /\ r = 0 => (a.PC = b.PC /\ h # "Fx55")
    /\ r > 1 => h = "Fx55"

\* C19: a handler returns 0 exactly when it left PC sequential and is not Fx55;
\* 00EE, 1nnn, 2nnn, Bnnn, a taken skip (which also adds 2 to PC) and a
\* still-waiting Fx0A return 1; Fx55 is the only handler that returns a value
\* above 1, and it always does, with the high half I and the low half I + x.
ControlCodeContract ==
    (last.handler # "none" /\ ~last.trap) =>
        ControlCodeOf(last.handler, last.opcode, last.before, state, last.r)

---------------------------------------------------------------------------
(* Drawing *)

\* Bit k (0 is the leftmost) of row j of the sprite at I in the State b is set.
SpriteBit(b, j, k) == (MemGet(b.memory, b.I + j) \div 2 ^ (7 - k)) % 2 = 1

\* The cells <<row, column>> that the n-row sprite at I covers on screen when its
\* origin is column X, row Y: the set bits that stay inside the right and bottom edges.
SpriteCells(b, X, Y, n) ==
    {<<Y + p[1], X + p[2]>> : p \in {q \in (0..n - 1) \X (0..7) :
        SpriteBit(b, q[1], q[2]) /\ X + q[2] < SCREEN_WIDTH /\ Y + q[1] < SCREEN_HEIGHT}}

\* Dxyn turned the State b into a by toggling exactly the cells of the sprite placed
\* at (V[x] mod 64, V[y] mod 32), with V[F] telling whether a lit cell went off.
DrawnAt(w, b, a) ==
    LET cells == SpriteCells(b, b.V[OpX(w)] % SCREEN_WIDTH, b.V[OpY(w)] % SCREEN_HEIGHT, OpN(w))
    IN /\ a.screen = (b.screen \ cells) \cup (cells \ b.screen)
       /\ a.V[15] = IF cells \cap b.screen # {} THEN 1 ELSE 0

\* C20: Dxyn toggles exactly the cells under the set bits of the sprite placed at
\* X = V[x] mod 64, Y = V[y] mod 32 that lie inside the screen (cells past the right
\* or bottom edge are discarded, not wrapped), leaves every other cell unchanged, and
\* ends with V[F] = 1 iff a lit cell was turned off, else 0.
DrawTogglesSprite ==
    (last.handler = "Dxyn" /\ ~last.trap) => DrawnAt(last.opcode, last.before, state)

---------------------------------------------------------------------------
(* Store and load: Fx55 and Fx65 called in sequence *)

MaxTraced == 3          \* handler calls in one traced run

\* The States the traced calls start from: sixteen distinct register values and an
\* I at the font, in the program area, and with 15 and 0 bytes of room after it.
TracedStates ==
    {[StateNew(<<>>) EXCEPT !.I = i, !.V = [k \in 0..15 |-> (k * m + 1) % 256]] :
        i \in {0, 768, 4080, 4095}, m \in {3, 17}}

\* F055 F155 FF55 F065 F165 FF65 6007 61AA 6FBB A300 F033
TracedOpcodes ==
    {61525, 61781, 65365, 61541, 61797, 65381, 24583, 25002, 28603, 41728, 61491}

TracedInit ==
    /\ IdleRun
    /\ state \in TracedStates
    /\ play = FALSE
    /\ execution_method = "Interpreter"
    /\ interpreter_caches = EMPTY_TABLE
    /\ interpreter_caches_2 = EMPTY_TABLE
    /\ interpreter_caches_3 = EMPTY_TABLE
    /\ jit_caches = {}
    /\ channel_out = <<>>
    /\ trapped = FALSE
    /\ shadow = StateNew(<<>>)
    /\ shadowTrapped = FALSE
    /\ storer = <<>>
    /\ last = [NoCall EXCEPT !.before = state] @@ [trace |-> <<>>]
    /\ budget = [calls |-> MaxTraced]

\* The call of the handler of `opcode` that returned res, remembered with the
\* calls made before it.
CalledTraced(opcode, res) ==
    /\ state' = IF res.trap THEN state ELSE res.s
    /\ trapped' = res.trap
    /\ last' = [handler |-> ILUT(opcode), opcode |-> opcode, before |-> state,
                r |-> res.r, trap |-> res.trap,
                trace |-> IF last.handler = "none" THEN <<>>
                          ELSE Append(last.trace,
                                      [handler |-> last.handler, opcode |-> last.opcode,
                                       V |-> last.before.V, I |-> last.before.I])]
    /\ budget' = [budget EXCEPT !.calls = @ - 1]

CallTraced(opcode) ==
    /\ ~trapped
    /\ budget.calls > 0
    /\ \E rnd \in RandBytes, ovf \in BOOLEAN :
          CalledTraced(opcode, Execute(ILUT(opcode), state, opcode, rnd, ovf))
    /\ UNCHANGED <<play, execution_method, interpreter_caches, interpreter_caches_2,
                   interpreter_caches_3, jit_caches, channel_out>>
    /\ UNCHANGED refVars
    /\ UNCHANGED runVars

TracedNext == \E opcode \in TracedOpcodes : CallTraced(opcode)

TracedSpec == TracedInit /\ [][TracedNext]_vars

MemoryWriters == {"Fx33", "Fx55"}

\* Call k of the trace is the Fx55 that the Fx65 called last reads back: the same x,
\* the same I, and no store to memory between the two.
StoredFor(k) ==
    /\ last.trace[k].handler = "Fx55"
    /\ OpX(last.trace[k].opcode) = OpX(last.opcode)
    /\ last.trace[k].I = last.before.I
    /\ \A m \in (k + 1)..Len(last.trace) : last.trace[m].handler \notin MemoryWriters

\* C21: Fx65 after Fx55 with the same x and the same I restores V[0..=x] to the values
\* held before the Fx55, whatever was done to the V registers in between, and neither
\* instruction touches V[x+1..15].
StoreLoadRoundTrip ==
    /\ (last.handler = "Fx55" /\ ~last.trap) => state.V = last.before.V
    /\ (last.handler = "Fx65" /\ ~last.trap) =>
          /\ \A i \in (OpX(last.opcode) + 1)..15 : state.V[i] = last.before.V[i]
          /\ \A k \in 1..Len(last.trace) :
                StoredFor(k) => \A i \in 0..OpX(last.opcode) : state.V[i] = last.trace[k].V[i]

\* An Fx65 restored a register that had been overwritten after the Fx55 saved it.
RestoredOverwritten ==
    /\ last.handler = "Fx65" /\ ~last.trap
    /\ \E k \in 1..Len(last.trace) :
          /\ StoredFor(k)
          /\ \E i \in 0..OpX(last.opcode) :
                last.before.V[i] # last.trace[k].V[i] /\ state.V[i] = last.trace[k].V[i]

---------------------------------------------------------------------------
(* The five backends, stepped by the host one step at a time *)

MaxBackendSteps == 17   \* backend steps in one run
MaxBackendInputs == 2   \* method changes and timer expiries in one run

ExecutionMethodJit == ExecutionMethod \cup {"Jit"}

\* Chip8::single_step with the JIT arm and the inputs the JIT consumes.
single_step_jit(c, method, rnds, elapsed, again, ovf, wild) ==
    IF method = "Jit" THEN jit(c, rnds, elapsed, again, ovf, wild)
    ELSE single_step(c, method, rnds, elapsed, ovf)

\* 2204 1200 00EE: call 0x204, return to 0x202, jump back
RomCallReturn == Rom(<<8708, 4608, 238>>)
\* 2200: a subroutine that calls itself
RomRecurse == Rom(<<8704>>)
\* 00EE 1200: a return with nothing on the stack
RomReturnEmpty == Rom(<<238, 4608>>)
\* 6010 F029 D015 1206: draw the glyph of digit 0 at column 16, then spin
RomGlyph == Rom(<<24592, 61481, 53269, 4614>>)

BackendRoms == {RomCallReturn, RomRecurse, RomReturnEmpty, RomGlyph, RomCall, RomStoreData,
                RomSwitch}

BackendInit ==
    \E rom \in BackendRoms :
        /\ InitRom(rom)
        /\ budget = [steps |-> MaxBackendSteps, inputs |-> MaxBackendInputs]

\* The effect of a step that returned r.
BackendStepTaken(r, rnds, elapsed, again) ==
    /\ SetCore(r.c)
    /\ last' = [method |-> execution_method, n |-> r.n, ops |-> r.ops, ret |-> r.ret,
                rnds |-> rnds, elapsed |-> elapsed, again |-> again,
                before |-> state, caches |-> jit_caches]
    /\ budget' = [steps |-> budget.steps - 1,
                  inputs |-> IF elapsed \/ again THEN budget.inputs - 1 ELSE budget.inputs]

\* handle_channels: Risp8Command::SingleStep under any of the five methods.
BackendSingleStep ==
    /\ ~trapped
    /\ budget.steps > 0
    /\ \E elapsed \in (IF budget.inputs > 0 THEN BOOLEAN ELSE {FALSE}),
          again \in (IF budget.inputs > 0 /\ execution_method = "Jit" THEN BOOLEAN
                     ELSE {FALSE}),
          ovf \in BOOLEAN, wild \in BOOLEAN :
       \E rnds \in [1..(IF execution_method = "Jit" THEN 1
                        ELSE RandNeed(Core, execution_method)) -> RandBytes] :
          /\ ~(elapsed /\ again)
          /\ BackendStepTaken(single_step_jit(Core, execution_method, rnds, elapsed, again,
                                              ovf, wild),
                              rnds, elapsed, again)
    /\ UNCHANGED <<play, execution_method>>
    /\ UNCHANGED refVars
    /\ UNCHANGED runVars

BackendNext ==
    \/ BackendSingleStep
    \/ \E method \in ExecutionMethodJit : CmdSetExecutionMethod(method)

BackendSpec == BackendInit /\ [][BackendNext]_vars

---------------------------------------------------------------------------
(* Calls and returns *)

\* The guest instruction the step just taken executed last.
LastOp == last.ops[Len(last.ops)]

\* The step just taken ended with the instruction of handler h, and did not panic.
EndedWith(h) ==
    last.method # "none" /\ last.ops # <<>> /\ ~trapped /\ ILUT(LastOp.opcode) = h

\* stack[0..n) is what it was before the step.
StackKept(n) == \A i \in 0..(n - 1) : state.stack[i] = last.before.stack[i]

\* The 2nnn at LastOp.pc was performed: return address pushed, SP incremented, PC = nnn.
CallPerformed ==
    /\ state.stack[last.before.SP] = LastOp.pc + 2
    /\ state.SP = last.before.SP + 1
    /\ state.PC = OpNNN(LastOp.opcode)
    /\ StackKept(last.before.SP)

\* The 00EE was performed: SP decremented, PC = the address on top of the stack.
ReturnPerformed ==
    /\ state.SP = last.before.SP - 1
    /\ state.PC = last.before.stack[last.before.SP - 1]
    /\ StackKept(state.SP)

\* C22: under every backend a 2nnn at address a executed with room on the stack (fewer
\* than 16 return addresses) stores a+2 at stack[SP], increments SP and sets PC = nnn,
\* and a 00EE with a return address on the stack decrements SP and sets PC to that
\* address, leaving stack[0..SP) as before the call.
CallReturnRoundTrip ==
    /\ (EndedWith("2nnn") /\ last.before.SP < 16) => CallPerformed
    /\ (EndedWith("00EE") /\ last.before.SP > 0) => ReturnPerformed

\* The step just taken executed the instruction of handler h last, with the stack
\* depth sp before it.
ReachedAt(h, sp) ==
    last.method # "none" /\ last.ops # <<>> /\ ILUT(LastOp.opcode) = h /\ last.before.SP = sp

\* C23: SP never reaches 16 and is never negative; a 2nnn executed at the blocked depth
\* and a 00EE executed at SP = 0 change neither SP nor the stack, jump nowhere (PC is
\* left at the instruction that follows them), return the end-of-block code 1 and do not
\* stop the machine.
StackLimitsAreNoOps ==
    /\ state.SP \in 0..15
    /\ (ReachedAt("2nnn", 15) \/ ReachedAt("00EE", 0)) =>
          /\ ~trapped
          /\ state.SP = last.before.SP
          /\ state.stack = last.before.stack
          /\ state.PC = LastOp.pc + 2
          /\ last.method # "Jit" => last.ret = 1

\* A call was blocked at depth 15 in a native block, which handed it to the interpreter.
CallBlockedAtDepth == ReachedAt("2nnn", 15) /\ last.method = "Jit" /\ state.PC = 514

---------------------------------------------------------------------------
(* Construction: Chip8::new on a ROM file *)

\* The ROM files handed to Chip8::new: lengths around State::MAX_PROGRAM_LEN, bytes
\* that differ from one file to the next.
RomFiles ==
    {[i \in 1..len |-> IF (i * seed) % 256 = 0 THEN 1 ELSE (i * seed) % 256] :
        len \in {0, 1, 2, 3583, 3584, 3585, 3586, 4096}, seed \in {1, 3, 7, 11, 13, 101, 255}}

\* Nothing constructed yet: the file to load, and whether it can be read.
NewInit ==
    /\ IdleRun
    /\ state = StateNew(<<>>)
    /\ play = FALSE
    /\ execution_method = "Interpreter"
    /\ interpreter_caches = EMPTY_TABLE
    /\ interpreter_caches_2 = EMPTY_TABLE
    /\ interpreter_caches_3 = EMPTY_TABLE
    /\ jit_caches = {}
    /\ channel_out = <<>>
    /\ trapped = FALSE
    /\ shadow = StateNew(<<>>)
    /\ shadowTrapped = FALSE
    /\ storer = <<>>
    /\ \E rom \in RomFiles, readable \in BOOLEAN :
          last = [rom |-> rom, readable |-> readable, result |-> "none", by |-> "none"]
    /\ budget = [calls |-> 1]

\* The outcome of a constructor: the State of the core it returned (res.s, when
\* result is "Ok"), the error it returned ("Err"), or its panic.
Constructed(by, res) ==
    /\ state' = res.s
    /\ trapped' = (res.result = "panic")
    /\ last' = [last EXCEPT !.result = res.result, !.by = by]
    /\ budget' = [calls |-> 0]
    /\ UNCHANGED <<play, execution_method, interpreter_caches, interpreter_caches_2,
                   interpreter_caches_3, jit_caches, channel_out>>
    /\ UNCHANGED refVars
    /\ UNCHANGED runVars

\* State::new_memory with its assertion on the length of the program.
new_memory_checked(program) ==
    IF Len(program) <= MAX_PROGRAM_LEN
    THEN [s |-> StateNew(program), result |-> "Ok"]
    ELSE [s |-> StateNew(<<>>), result |-> "panic"]

\* Chip8::new of the library crate: new_state reads the whole file and hands it to
\* State::new.
Chip8New(rom, readable) ==
    IF readable THEN new_memory_checked(rom)
    ELSE [s |-> StateNew(<<>>), result |-> "Err"]

\* Chip8::load_rom: one read into memory[0x200..0x1000], which takes what fits.
load_rom(s, rom, readable) ==
    IF readable
    THEN [s |-> [s EXCEPT !.memory =
                    ArrPutRun(s.memory, INITIAL_PC,
                              SubSeq(rom, 1, IF Len(rom) < MAX_PROGRAM_LEN THEN Len(rom)
                                             ELSE MAX_PROGRAM_LEN), 0)],
          result |-> "Ok"]
    ELSE [s |-> s, result |-> "Err"]

NewFromProgram ==
    /\ budget.calls > 0
    /\ Constructed("State::new", Chip8New(last.rom, last.readable))

NewLoadRom ==
    /\ budget.calls > 0
    /\ Constructed("load_rom", load_rom(StateNew(<<>>), last.rom, last.readable))

NewNext == NewFromProgram \/ NewLoadRom

NewSpec == NewInit /\ [][NewNext]_vars

\* Memory holds the font at 0..80, the program byte for byte from 0x200 on, and 0
\* everywhere else.
Loaded(memory, program) ==
    \A a \in 0..(MEMORY_SIZE - 1) :
        MemGet(memory, a) =
            IF a < 80 THEN FONT[a + 1]
            ELSE IF a >= INITIAL_PC /\ a < INITIAL_PC + Len(program)
                 THEN program[a - INITIAL_PC + 1]
                 ELSE 0

\* C24: constructing the core from a ROM longer than 0x1000 - 0x200 = 3584 bytes is
\* rejected with a construction error returned to the caller, and no core is produced;
\* a ROM of at most 3584 bytes is loaded byte for byte from 0x200 on, with the 80 font
\* bytes at 0..80 and every other byte of memory zero.
RomLengthChecked ==
    (last.result # "none" /\ last.readable) =>
        IF Len(last.rom) > 3584
        THEN last.result = "Err"
        ELSE last.result = "Ok" /\ Loaded(state.memory, last.rom)

---------------------------------------------------------------------------
(* The program 6010 F029 D015 *)

\* The three instructions of 6010 F029 D015 have run from the initial State: the
\* program lies at 0x200 and PC stands after it, on the jump that spins.
GlyphProgramRan ==
    /\ ~trapped
    /\ \A i \in 1..Len(RomGlyph) : MemGet(state.memory, INITIAL_PC + i - 1) = RomGlyph[i]
    /\ state.PC = INITIAL_PC + 6

\* The cells <<row, column>> of the glyph of digit 0 (rows F0 90 90 90 F0) with its
\* top-left corner at column 16, row 0.
GlyphZeroAt16 ==
    {<<r, 16 + c>> : r \in {0, 4}, c \in 0..3} \cup {<<r, 16 + c>> : r \in 1..3, c \in {0, 3}}

\* C25 as stated: after 6010 F029 D015 from the initial State V[0] = 0x10, I addresses
\* the font sprite of digit 0 (address 0), and the glyph of digit 0 is lit with its
\* top-left corner at column 16, row 0.
GlyphOfZeroDrawn ==
    GlyphProgramRan => (state.V[0] = 16 /\ state.I = 0 /\ state.screen = GlyphZeroAt16)

\* C25: after 6010 F029 D015 from the initial State V[0] = 0x10 and I = 0x10 * 5 = 80,
\* the first address past the 80 font bytes, so the five sprite rows read are zero: no
\* cell is lit and V[F] = 0.
GlyphProgramDrawsNothing ==
    GlyphProgramRan =>
        /\ state.V[0] = 16
        /\ state.I = 80
        /\ \A j \in 0..4 : MemGet(state.memory, state.I + j) = 0
        /\ state.screen = {}
        /\ state.V[15] = 0

\* The three instructions have run as one native block of the JIT.
GlyphProgramRanNative == GlyphProgramRan /\ last.method = "Jit" /\ Len(last.ops) = 3

---------------------------------------------------------------------------
(* The values native blocks return, handed to the match of Chip8::jit *)

MaxReturns == 2         \* block returns in one run

\* 16-bit arguments of the encoders: addresses of the ROM, and the ends of the range.
Addr16 == {0, 512, 514, 518, 32768, 65535}

\* Values no encoder makes: tags other than 1, 2, 3, and a tag with the words that
\* the encoder leaves zero set.
OtherReturns ==
    {Word64(0, 0, 0, 512), Word64(0, 0, 4, 512), Word64(0, 0, 65535, 514),
     Word64(0, 0, 256, 512), Word64(7, 9, 1, 512), Word64(7, 9, 2, 518)}

ReturnInit ==
    /\ \E rom \in {RomCall, RomGlyph} : InitRom(rom)
    /\ budget = [calls |-> MaxReturns]

\* The native blocks at 0x200, 0x202 and 0x206 of the ROM.
ReturnCaches(memory) ==
    {compile_block(memory, pc).cache : pc \in {p \in {512, 514, 518} :
                                                  ~compile_block(memory, p).trap}}

\* The native block entered at PC returned ret, which `made` built from args.
Returned(made, args, ret, r, rnds, ovf) ==
    /\ SetCore(r.c)
    /\ last' = [method |-> "Jit", made |-> made, args |-> args, ret |-> ret, n |-> r.n,
                ops |-> r.ops, rnds |-> rnds, ovf |-> ovf, before |-> state,
                caches |-> jit_caches]
    /\ budget' = [budget EXCEPT !.calls = @ - 1]
    /\ UNCHANGED <<play, execution_method>>
    /\ UNCHANGED refVars
    /\ UNCHANGED runVars

\* The match of Chip8::jit on ret, the block having run the sequence at PC.
BlockReturned(made, args, ret) ==
    /\ ~trapped
    /\ budget.calls > 0
    /\ \E rnds \in [1..1 -> RandBytes], ovf \in BOOLEAN :
          Returned(made, args, ret,
                   JitInterrupt(Core, ret, <<Executed(0, state.memory, state.PC)>>, rnds,
                                FALSE, ovf),
                   rnds, ovf)

ReturnedUseInterpreter ==
    \E addr \in Addr16 : BlockReturned("use_interpreter", <<addr>>, use_interpreter(addr))

ReturnedJump == \E addr \in Addr16 : BlockReturned("jump", <<addr>>, jump(addr))

ReturnedInvalidate ==
    \E next_pc \in {514, 65535}, range_beg \in Addr16, range_end \in Addr16 :
        BlockReturned("invalidate", <<next_pc, range_beg, range_end>>,
                      invalidate(next_pc, range_beg, range_end))

ReturnedOther == \E ret \in OtherReturns : BlockReturned("none", <<>>, ret)

\* The blocks are compiled by the first steps of the JIT at these addresses.
ReturnCompiled ==
    /\ ~trapped
    /\ jit_caches = {}
    /\ budget.calls = MaxReturns
    /\ jit_caches' = ReturnCaches(state.memory)
    /\ UNCHANGED <<state, play, execution_method, interpreter_caches, interpreter_caches_2,
                   interpreter_caches_3, channel_out, trapped, last, budget>>
    /\ UNCHANGED refVars
    /\ UNCHANGED runVars

ReturnNext ==
    \/ ReturnCompiled
    \/ ReturnedUseInterpreter
    \/ ReturnedJump
    \/ ReturnedInvalidate
    \/ ReturnedOther

ReturnSpec == ReturnInit /\ [][ReturnNext]_vars

\* The core before the return, with PC set to pc.
BeforeAt(pc) ==
    [state |-> [last.before EXCEPT !.PC = pc], channel_out |-> channel_out,
     trapped |-> FALSE]

\* C26: after a native block returned r, the step, by bits 16..31 of r: 1, sets
\* PC = r & 0xFFFF and executes exactly one interpreter instruction; 2, sets PC = r & 0xFFFF
\* and does nothing else; 3, drops the native caches that meet [r>>48, (r>>32) & 0xFFFF]
\* and sets PC = r & 0xFFFF; anything else, traps.  The values use_interpreter, jump and
\* invalidate make decode to their tag, addresses and next PC.
ReturnProtocol ==
    (last.method = "Jit" /\ "made" \in DOMAIN last) =>
        /\ last.ret.w1 = 1 =>
              /\ state = interpreter(BeforeAt(last.ret.w0), last.rnds, FALSE, last.ovf).c.state
              /\ trapped = interpreter(BeforeAt(last.ret.w0), last.rnds, FALSE,
                                       last.ovf).c.trapped
              /\ last.n = 1
              /\ \A i \in 1..Len(last.ops) : last.ops[i].pc = last.ret.w0
              /\ jit_caches = last.caches
        /\ last.ret.w1 = 2 =>
              (~trapped /\ state = [last.before EXCEPT !.PC = last.ret.w0]
               /\ jit_caches = last.caches)
        /\ last.ret.w1 = 3 =>
              /\ ~trapped
              /\ state = [last.before EXCEPT !.PC = last.ret.w0]
              /\ jit_caches = {e \in last.caches :
                                  e.end_pc <= last.ret.w3 \/ e.pc > last.ret.w2}
        /\ last.ret.w1 \notin {1, 2, 3} => (trapped /\ state = last.before)
        /\ last.made = "use_interpreter" =>
              (last.ret.w1 = 1 /\ last.ret.w0 = last.args[1])
        /\ last.made = "jump" => (last.ret.w1 = 2 /\ last.ret.w0 = last.args[1])
        /\ last.made = "invalidate" =>
              /\ last.ret.w1 = 3 /\ last.ret.w0 = last.args[1]
              /\ last.ret.w3 = last.args[2] /\ last.ret.w2 = last.args[3]

\* An InvalidateCache return dropped a native block and kept another.
ReturnDroppedBlock ==
    /\ last.method = "Jit" /\ "made" \in DOMAIN last
    /\ last.made = "invalidate"
    /\ jit_caches # last.caches /\ jit_caches # {}

---------------------------------------------------------------------------
(* The block builders of variants 1 and 2, from the steps that call them *)

MaxBuilderSteps == 5    \* backend steps in one run
MaxBuilderInputs == 1   \* method changes in one run

\* AFFE 6060 6100 F155 1FFE: writes 6000 into the last two bytes of the memory and
\* jumps to it
RomTail == Rom(<<45054, 24672, 24832, 61781, 8190>>)
\* 5011 3000 9121 1200: words of the 5xy0 and 9xy0 rows with a low nibble that is not 0
RomLowNibble == Rom(<<20497, 12288, 37153, 4608>>)

BuilderRoms == {RomOddBlock, RomWaitKey, RomCall, RomStoreData, RomTail, RomLowNibble}

BuilderInit ==
    \E rom \in BuilderRoms :
        /\ InitRom(rom)
        /\ budget = [steps |-> MaxBuilderSteps, inputs |-> MaxBuilderInputs]

\* What the step of c under `method` gets from the builder it calls: called is FALSE
\* when the step finds its block in the table or panics before it looks.
BuilderCall(c, method) ==
    CASE method = "CachedInterpreter" /\ IndexOk(c.state.PC)
         /\ addr_to_index(c.state.PC) \notin DOMAIN c.interpreter_caches ->
              [called |-> TRUE, block |-> new_cache_block(c.state)]
      [] method = "CachedInterpreter2" /\ IndexOk2(c.state.PC)
         /\ index_in_subcache(c.state.PC)
                \notin DOMAIN ArrGet(c.interpreter_caches_2, addr_to_index_2(c.state.PC),
                                     EMPTY_POOL) ->
              [called |-> TRUE, block |-> new_cache_block_2(c.state.PC, c.state.memory)]
      [] OTHER -> [called |-> FALSE, block |-> [trap |-> FALSE, cache |-> <<>>]]

\* The effect of a step that returned r, its builder having returned built.
BuilderStepTaken(r, built) ==
    /\ SetCore(r.c)
    /\ last' = [method |-> execution_method, n |-> r.n, ops |-> r.ops, ret |-> r.ret,
                before |-> state, built |-> built]
    /\ budget' = [budget EXCEPT !.steps = @ - 1]

\* handle_channels: Risp8Command::SingleStep under variant 1 or 2.
BuilderSingleStep ==
    /\ ~trapped
    /\ budget.steps > 0
    /\ execution_method \in {"CachedInterpreter", "CachedInterpreter2"}
    /\ \E elapsed \in BOOLEAN, ovf \in BOOLEAN :
       \E rnds \in [1..RandNeed(Core, execution_method) -> RandBytes] :
          BuilderStepTaken(single_step(Core, execution_method, rnds, elapsed, ovf),
                           BuilderCall(Core, execution_method))
    /\ UNCHANGED <<play, execution_method, jit_caches>>
    /\ UNCHANGED refVars
    /\ UNCHANGED runVars

BuilderNext ==
    \/ BuilderSingleStep
    \/ \E method \in {"CachedInterpreter", "CachedInterpreter2"} :
          CmdSetExecutionMethod(method)

BuilderSpec == BuilderInit /\ [][BuilderNext]_vars

\* The handlers after which the builders stop, by the specification.
BlockEnders == {"00EE", "1nnn", "2nnn", "Bnnn", "Fx0A", "Fx55"}

RECURSIVE StraightRun(_, _)
\* The consecutive opcodes of the decoder table from pc, up to and including the first
\* of BlockEnders, or up to and excluding the first invalid word.
StraightRunFrom(memory, pc, opcode, h) ==
    IF h = "invalid" THEN <<>>
    ELSE IF h \in BlockEnders THEN <<CachedInstruction(opcode, h)>>
    ELSE <<CachedInstruction(opcode, h)>> \o StraightRun(memory, pc + 2)

StraightRun(memory, pc) ==
    IF ~FetchOk(memory, pc) THEN <<>>
    ELSE StraightRunFrom(memory, pc, Fetch(memory, pc), ILUT(Fetch(memory, pc)))

\* The step just taken called the builder of `method`.
Built(method) ==
    last.method = method /\ "built" \in DOMAIN last /\ last.built.called

\* C27: the variant-1 builder called at PC p leaves the State unchanged and returns a
\* non-empty sequence holding exactly the consecutive opcodes at p, p+2, ... up to and
\* including the first 00EE, 1nnn, 2nnn, Bnnn, Fx0A or Fx55, or up to and excluding the
\* first invalid word (a conditional skip does not end it); it traps iff the word at p
\* is invalid.
BuilderReturnsStraightRun ==
    Built("CachedInterpreter") =>
        /\ last.built.block.trap <=>
              ILUT(Fetch(last.before.memory, last.before.PC)) = "invalid"
        /\ last.built.block.trap => state = last.before
        /\ ~last.built.block.trap =>
              /\ last.built.block.cache.instructions # <<>>
              /\ last.built.block.cache.instructions
                    = StraightRun(last.before.memory, last.before.PC)

\* The first address past the 16-byte pool of p.
PoolEnd(p) == INITIAL_PC + SUBCACHE_SIZE * (((p - INITIAL_PC) \div SUBCACHE_SIZE) + 1)

\* C28: every block variant 2 builds at a start address p, even or odd, lies inside
\* p's 16-byte pool: all its opcode bytes are below
\* 0x200 + 16 * (floor((p - 0x200) / 16) + 1).
BlockInsidePool ==
    (Built("CachedInterpreter2") /\ ~last.built.block.trap) =>
        /\ last.built.block.cache.pc = last.before.PC
        /\ last.built.block.cache.end_pc <= PoolEnd(last.before.PC)

---------------------------------------------------------------------------
(* Shapes of the cache tables *)

\* Every PC of 0x200..0x1000 has its own slot in each table: pc - 0x200 in the tables
\* of variants 1 and 3, pool (pc - 0x200) >> 4 and slot (pc - 0x200) & 0xF in variant 2's.
OwnSlots ==
    \A pc \in INITIAL_PC..(MEMORY_SIZE - 1) :
        /\ addr_to_index(pc) \in 0..(INTERPRETER_CACHES_LEN - 1)
        /\ addr_to_index(pc) + INITIAL_PC = pc
        /\ addr_to_index_2(pc) \in 0..(INTERPRETER_CACHES_LEN_2 - 1)
        /\ index_in_subcache(pc) \in 0..(SUBCACHE_SIZE - 1)
        /\ INITIAL_PC + SUBCACHE_SIZE * addr_to_index_2(pc) + index_in_subcache(pc) = pc

\* The slots filled so far lie in their tables, each under the address of its block.
SlotsInTables ==
    /\ \A i \in DOMAIN interpreter_caches :
          i \in 0..(INTERPRETER_CACHES_LEN - 1) /\ interpreter_caches[i].pc = INITIAL_PC + i
    /\ \A p \in DOMAIN interpreter_caches_2 :
          /\ p \in 0..(INTERPRETER_CACHES_LEN_2 - 1)
          /\ \A k \in DOMAIN interpreter_caches_2[p] :
                /\ k \in 0..(SUBCACHE_SIZE - 1)
                /\ interpreter_caches_2[p][k].pc = INITIAL_PC + SUBCACHE_SIZE * p + k
    /\ \A i \in DOMAIN interpreter_caches_3 : i \in 0..(INTERPRETER_CACHES_LEN - 1)

---------------------------------------------------------------------------
(* The decoders, applied to every 16-bit word *)

DecodeInit ==
    /\ InitRom(RomEmpty)
    /\ budget = [words |-> 1]

\* The word w looked up in ILUT and matched by the block builders and by the JIT
\* compiler; the builders' break without a push is their unknown-opcode case.
Decoded(w, m, j) ==
    /\ last' = [method |-> "decode", word |-> w, table |-> ILUT(w),
                builder |-> IF m.execute = "none" THEN "invalid" ELSE m.execute,
                jit |-> j.emit]
    /\ budget' = [words |-> 0]

\* One word, any of the 65 536, is decoded by the three decoders.
DecodeWord ==
    /\ budget.words > 0
    /\ \E w \in 0..(U16 - 1) : Decoded(w, CacheMatch(w), JitMatch(w))
    /\ UNCHANGED <<state, play, execution_method, interpreter_caches, interpreter_caches_2,
                   interpreter_caches_3, jit_caches, channel_out, trapped>>
    /\ UNCHANGED refVars
    /\ UNCHANGED runVars

DecodeNext == DecodeWord

DecodeSpec == DecodeInit /\ [][DecodeNext]_vars

\* The patterns of the table that the word w matches.
Matching(w) ==
    {i \in 1..Len(INSTRUCTION_FORMATS) : generate_opcodes(INSTRUCTION_FORMATS[i][1], w)}

\* C30: for every 16-bit word, the decoder table assigns the handler of the unique
\* one of the 34 patterns the word matches and the invalid trap otherwise, and the
\* block builders of variants 1 and 2 and the JIT compiler's opcode match select that
\* same handler for the word and treat it as invalid exactly when the table does.
DecodersAgree ==
    last.method = "decode" =>
        /\ Len(INSTRUCTION_FORMATS) = 34
        /\ Cardinality(Matching(last.word)) <= 1
        /\ last.table = "invalid" <=> Matching(last.word) = {}
        /\ \A i \in Matching(last.word) : last.table = INSTRUCTION_FORMATS[i][2]
        /\ last.builder = last.table
        /\ last.jit = last.table

---------------------------------------------------------------------------
(* Depth of the call stack *)

\* C31: a 2nnn is performed (return address pushed, SP incremented, PC = nnn) whenever
\* fewer than 16 return addresses are on the stack, so that 16 nested calls succeed; it
\* is left unperformed only when SP = 16.
SixteenCallsSucceed ==
    /\ \A sp \in 0..15 : ReachedAt("2nnn", sp) => (~trapped /\ CallPerformed)
    /\ ReachedAt("2nnn", 16) =>
          (state.SP = 16 /\ state.stack = last.before.stack /\ state.PC = LastOp.pc + 2)

---------------------------------------------------------------------------
(* The 8-bit ALU: the interpreter's handlers and the JIT's native sequences *)

MaxAluCalls == 2        \* ALU instructions in one run

\* Register indices the instructions name: the first two, one in the middle, VF.
AluRegs == {0, 1, 7, 15}

\* The States the instructions start from: register files, set by 6xkk instructions,
\* that hold the bytes at both ends of the range and across bit 7.
AluStates ==
    {[StateNew(<<>>) EXCEPT !.V = [k \in 0..15 |-> (k * m + a) % 256]] :
        m \in {0, 17, 127}, a \in {0, 1, 128, 255}}

\* 7xkk with kk in {00, 01, 80, FF}; 8xy4 8xy5 8xy6 8xy7 8xyE
AluOpcodes ==
    {28672 + x * 256 + kk : x \in AluRegs, kk \in {0, 1, 128, 255}}
    \cup {32768 + x * 256 + y * 16 + n : x \in AluRegs, y \in AluRegs, n \in {4, 5, 6, 7, 14}}

AluInit ==
    /\ IdleRun
    /\ state \in AluStates
    /\ play = FALSE
    /\ execution_method = "Interpreter"
    /\ interpreter_caches = EMPTY_TABLE
    /\ interpreter_caches_2 = EMPTY_TABLE
    /\ interpreter_caches_3 = EMPTY_TABLE
    /\ jit_caches = {}
    /\ channel_out = <<>>
    /\ trapped = FALSE
    /\ shadow = StateNew(<<>>)
    /\ shadowTrapped = FALSE
    /\ storer = <<>>
    /\ last = [NoCall EXCEPT !.before = state] @@ [native |-> FALSE, other |-> state]
    /\ budget = [calls |-> MaxAluCalls]

\* The instruction `opcode` ran and left s; the other implementation leaves `other`.
AluRan(opcode, native, s, other) ==
    /\ state' = s
    /\ last' = [handler |-> ILUT(opcode), opcode |-> opcode, before |-> state, r |-> 0,
                trap |-> FALSE, native |-> native, other |-> other]
    /\ budget' = [budget EXCEPT !.calls = @ - 1]
    /\ UNCHANGED <<play, execution_method, interpreter_caches, interpreter_caches_2,
                   interpreter_caches_3, jit_caches, channel_out, trapped>>
    /\ UNCHANGED refVars
    /\ UNCHANGED runVars

\* The handler of ILUT called on the State.
AluInterpreted ==
    /\ budget.calls > 0
    /\ \E opcode \in AluOpcodes :
          AluRan(opcode, FALSE, Execute(ILUT(opcode), state, opcode, 0, FALSE).s,
                 JitOp(state, opcode, state.PC, FALSE).s)

\* The native sequence compile_block emits for the opcode, run on the State.
AluNative ==
    /\ budget.calls > 0
    /\ \E opcode \in AluOpcodes :
          AluRan(opcode, TRUE, JitOp(state, opcode, state.PC, FALSE).s,
                 Execute(ILUT(opcode), state, opcode, 0, FALSE).s)

AluNext == AluInterpreted \/ AluNative

AluSpec == AluInit /\ [][AluNext]_vars

\* After the instruction, V[x] = res and V[F] = flag, the flag winning when x = F, and
\* no other register has changed.
AluLeft(res, flag) ==
    \A i \in 0..15 :
        state.V[i] = IF i = 15 THEN flag
                     ELSE IF i = OpX(last.opcode) THEN res
                     ELSE last.before.V[i]

\* C32: 7xkk gives V[x] = (V[x]+kk) mod 256 without touching V[F]; 8xy4 gives
\* (V[x]+V[y]) mod 256 with V[F] = carry; 8xy5 gives (V[x]-V[y]) mod 256 with V[F] = 1 iff
\* no borrow; 8xy7 gives (V[y]-V[x]) mod 256 with V[F] = 1 iff no borrow; 8xy6 halves V[x]
\* with V[F] = old bit 0; 8xyE gives (2*V[x]) mod 256 with V[F] = old bit 7; the shifts
\* never read V[y]; when x = F the value left in V[F] is the flag.  The interpreter's
\* handlers and the JIT's native sequences agree on all of these.
AluResults ==
    LET vx == last.before.V[OpX(last.opcode)]
        vy == last.before.V[OpY(last.opcode)]
    IN ("native" \in DOMAIN last /\ last.handler # "none") =>
          /\ state = last.other
          /\ [state EXCEPT !.V = last.before.V] = last.before
          /\ last.handler = "7xkk" =>
                \A i \in 0..15 :
                    state.V[i] = IF i = OpX(last.opcode) THEN (vx + OpKK(last.opcode)) % 256
                                 ELSE last.before.V[i]
          /\ last.handler = "8xy4" =>
                AluLeft((vx + vy) % 256, IF vx + vy > 255 THEN 1 ELSE 0)
          /\ last.handler = "8xy5" =>
                AluLeft((vx - vy) % 256, IF vx >= vy THEN 1 ELSE 0)
          /\ last.handler = "8xy7" =>
                AluLeft((vy - vx) % 256, IF vy >= vx THEN 1 ELSE 0)
          /\ last.handler = "8xy6" => AluLeft(vx \div 2, vx % 2)
          /\ last.handler = "8xyE" => AluLeft((2 * vx) % 256, vx \div 128)

\* A native 8xy4 on VF itself carried, and left the carry where the sum would go.
AluFlagOverSum ==
    /\ "native" \in DOMAIN last /\ last.native
    /\ last.handler = "8xy4" /\ OpX(last.opcode) = 15
    /\ last.before.V[15] + last.before.V[OpY(last.opcode)] > 256
    /\ state.V[15] = 1

---------------------------------------------------------------------------
(* Invalidation after a native store *)

\* The native block e holds an address of [beg_addr, end_addr].
MeetsRange(e, beg_addr, end_addr) == e.pc <= end_addr /\ beg_addr < e.end_pc

\* The JIT step just taken ran a block that ended with a native Fx55.
NativeStoreEnded == last.method = "Jit" /\ EndedWith("Fx55")

---------------------------------------------------------------------------
(* The commands that control the run: Play, Pause, SingleStep, SetExecutionMethod *)

MaxControlCmds == 3     \* commands the host enqueues in one run

ControlCommands ==
    {Play, Pause, SingleStep} \cup {SetExecutionMethod(method) : method \in ExecutionMethod}

ControlRoms == {RomSwitch, RomTimers}

ControlInit ==
    \E rom \in ControlRoms :
        /\ InitRom(rom)
        /\ budget = [cmds |-> MaxControlCmds, ticks |-> 0]

ControlNext ==
    \/ \E cmd \in ControlCommands : HostSend(cmd)
    \/ CoreCommand
    \/ CoreDrained
    \/ CoreLoop

ControlSpec == ControlInit /\ [][ControlNext]_vars

\* The command handle_channels has just matched.
Matched == applied'[Len(applied')]

\* The State after one step of the selected backend, for some inputs of the step.
OneStepTaken ==
    \E ovf \in BOOLEAN :
    \E rnds \in [1..RandNeed(Core, execution_method) -> RandBytes] :
        /\ state' = single_step(Core, execution_method, rnds, FALSE, ovf).c.state
        /\ trapped' = single_step(Core, execution_method, rnds, FALSE, ovf).c.trapped

\* C34: SingleStep executes exactly one step of the currently selected backend whether
\* the core is playing or paused and does not change the play flag; SetExecutionMethod
\* changes only the selected method and takes effect from the next step (State, play
\* flag and every cache table are unchanged by it); Play and Pause change only the play
\* flag.
CommandFrames ==
    [][/\ (applied' # applied /\ Matched = SingleStep) =>
              /\ play' = play /\ execution_method' = execution_method
              /\ last'.method = execution_method
              /\ OneStepTaken
       /\ (applied' # applied /\ Matched.cmd = "SetExecutionMethod") =>
              /\ execution_method' = Matched.method
              /\ UNCHANGED <<state, play, interpreter_caches, interpreter_caches_2,
                             interpreter_caches_3, jit_caches, channel_out, trapped, last>>
       /\ (applied' # applied /\ Matched \in {Play, Pause}) =>
              /\ play' = (Matched = Play)
              /\ UNCHANGED <<state, execution_method, interpreter_caches,
                             interpreter_caches_2, interpreter_caches_3, jit_caches,
                             channel_out, trapped, last>>
       /\ (applied' = applied /\ last' # last) => last'.method = execution_method
      ]_vars

\* The method was changed while the core was playing, with a block in a cache table.
MethodChangedWhilePlaying ==
    /\ event.kind = "cmd" /\ event.cmd.cmd = "SetExecutionMethod"
    /\ play
    /\ interpreter_caches # EMPTY_TABLE
    /\ execution_method # "CachedInterpreter"

---------------------------------------------------------------------------
(* Steps and commands: a step runs between two matches of handle_channels *)

MaxAtomicCmds == 3      \* commands the host enqueues after selecting the backend

\* D005 6108 D105 1206: two sprites drawn in one block, then a spin
RomTwoDraws == Rom(<<53253, 24840, 53509, 4614>>)

AtomicRoms == {RomTwoDraws, RomWaitKey}

AtomicCommands == {GetScreen, SetKey(7, TRUE), SetKey(7, FALSE), Play, SingleStep}

AtomicInit ==
    \E rom \in AtomicRoms :
        /\ InitRom(rom)
        /\ budget = [cmds |-> MaxAtomicCmds, ticks |-> 0]

AtomicNext ==
    \/ \E cmd \in AtomicCommands : HostSend(cmd)
    \/ \E method \in {"CachedInterpreter", "CachedInterpreter2"} : HostSelect(method)
    \/ CoreCommand
    \/ CoreDrained
    \/ CoreLoop

AtomicSpec == AtomicInit /\ [][AtomicNext]_vars

\* The answers appended to channel_out by the transition.
Answered == {channel_out'[i] : i \in (Len(channel_out) + 1)..Len(channel_out')}

\* The screen of RomTwoDraws inside its first block: the first sprite drawn, the
\* second not yet.
MidBlockScreen == execute_Dxyn(StateNew(RomTwoDraws), 53253).s.screen

\* The run steps by whole blocks: the host selected a cached interpreter first.
BlockRun == applied # <<>> /\ applied[1].cmd = "SetExecutionMethod"

\* What a transition that takes a step leaves alone.
StepFrame ==
    /\ play' = play /\ execution_method' = execution_method
    /\ state'.keys = state.keys
    /\ state'.wait_key = state.wait_key
       \/ \E i \in 1..Len(last'.ops) : ILUT(last'.ops[i].opcode) = "Fx0A"
    /\ applied' = applied \/ applied' = Append(applied, SingleStep)
    /\ \A a \in Answered : a.answer # "Screen"

\* A transition that answers with a screen: the match of GetScreen, without a step.
AnswerFrame ==
    /\ Answered = {Screen(state.screen)}
    /\ applied' = Append(applied, GetScreen)
    /\ state' = state /\ last' = last

\* No Screen answer holds the screen of the middle of the block.
NoMidBlockAnswer ==
    \A i \in 1..Len(channel_out) :
        channel_out[i].answer = "Screen" => channel_out[i].screen # MidBlockScreen

---------------------------------------------------------------------------
(* Drawing: the origin registers *)

\* The screen s with the cells toggled.
Toggled(s, cells) == (s \ cells) \cup (cells \ s)

\* The origin Dxyn is stated to use: the values V[x] and V[y] held by the State b
\* before the instruction, reduced to the screen.
OldOrigin(w, b) == <<b.V[OpX(w)] % SCREEN_WIDTH, b.V[OpY(w)] % SCREEN_HEIGHT>>

\* C36: Dxyn draws the sprite at (old V[x] mod 64, old V[y] mod 32) for every
\* register index x, y in 0..15, x = F and y = F included, although the same
\* instruction clears V[F].
DrawAtOldOrigin ==
    (last.handler = "Dxyn" /\ ~last.trap) =>
        LET o == OldOrigin(last.opcode, last.before)
        IN state.screen =
               Toggled(last.before.screen,
                       SpriteCells(last.before, o[1], o[2], OpN(last.opcode)))

---------------------------------------------------------------------------
(* The latched key: key events while an Fx0A waits *)

MaxKeySteps == 3        \* single steps in one run
MaxKeyEvents == 5       \* key events and method changes in one run

\* The keys the host presses and releases: two of the keypad and one above 0xF.
KeyPad == {3, 7, 16}

KeyInit ==
    /\ InitRom(RomWaitKey)
    /\ budget = [steps |-> MaxKeySteps, inputs |-> MaxKeyEvents]

KeyNext ==
    \/ CmdSingleStep
    \/ \E key \in KeyPad, pressed \in BOOLEAN : CmdSetKey(key, pressed)
    \/ \E method \in ExecutionMethod : CmdSetExecutionMethod(method)

KeySpec == KeyInit /\ [][KeyNext]_vars

\* The step being taken executes an Fx0A that hands the latched key to V[x] and
\* returns wait_key to NotWaiting.
Fx0AConsumes ==
    /\ last' # last
    /\ state'.wait_key = NotWaiting
    /\ \E i \in 1..Len(last'.ops) :
          /\ ILUT(last'.ops[i].opcode) = "Fx0A"
          /\ state'.V[OpX(last'.ops[i].opcode)] = state.wait_key.key

\* A latched key leaves wait_key only through an Fx0A.
LatchKept == (state.wait_key.tag = "Key") => (state'.wait_key = state.wait_key \/ Fx0AConsumes)

\* A key is latched only while Waiting, and it is the key whose release the event is.
LatchedOnRelease ==
    (state.wait_key.tag # "Key" /\ state'.wait_key.tag = "Key") =>
        /\ state.wait_key = Waiting
        /\ state.keys[state'.wait_key.key]
        /\ ~state'.keys[state'.wait_key.key]

\* C37: once wait_key = Key(k) has been set by a release, no later press or release
\* of any key changes it; it stays Key(k) until an Fx0A consumes it, so the key the
\* program receives is the first key released while Waiting.
FirstReleaseWins == [][LatchKept /\ LatchedOnRelease]_vars

\* Key 7 is latched while key 3, pressed during the wait, has been released after it.
SecondReleaseIgnored ==
    /\ state.wait_key = Key(7)
    /\ ~state.keys[3]
    /\ ~state.keys[7]
    /\ budget.inputs <= MaxKeyEvents - 4

---------------------------------------------------------------------------
(* Cache-table indices below the program area *)

MaxIndexSteps == 4      \* backend steps in one run
MaxIndexInputs == 2     \* method changes and timer expiries in one run

\* A050 F055 1204: store V0 into the zero bytes that follow the font
RomStoreFont == Rom(<<41040, 61525, 4612>>)
\* 1006: jump into the font, whose bytes at 0x006 read 6020 (LD V0, 0x20)
RomJumpFont == Rom(<<4102>>)

IndexRoms == {RomStoreFont, RomJumpFont, RomStoreData}

IndexInit ==
    \E rom \in IndexRoms :
        /\ InitRom(rom)
        /\ budget = [steps |-> MaxIndexSteps, inputs |-> MaxIndexInputs]

IndexSpec == IndexInit /\ [][BackendNext]_vars

\* The table index of addr computed by `method` lies inside the method's table.
IndexInTable(addr, method) ==
    IF method = "CachedInterpreter2" THEN IndexOk2(addr) ELSE IndexOk(addr)

\* The instructions of the step that ran before its last one and assigned I.
SetsI(ops) == {i \in 1..(Len(ops) - 1) : ILUT(ops[i].opcode) \in {"Annn", "Fx1E", "Fx29"}}

\* I when the last instruction of the step ran, for a step whose earlier
\* instructions assigned I by Annn only.
StoreBase(ops, b) ==
    IF SetsI(ops) = {} THEN b.I
    ELSE OpNNN(ops[CHOOSE i \in SetsI(ops) : \A j \in SetsI(ops) : j <= i].opcode)

\* The step just taken, made by variant 2 or 3, ended with an Fx55 that stored
\* inside memory.
IndexedStore ==
    /\ last.method \in {"CachedInterpreter2", "CachedInterpreter3"}
    /\ last.ops # <<>>
    /\ ILUT(LastOp.opcode) = "Fx55"
    /\ \A i \in SetsI(last.ops) : ILUT(last.ops[i].opcode) = "Annn"
    /\ StoreBase(last.ops, last.before) + OpX(LastOp.opcode) < MEMORY_SIZE

\* C38: every cache-table index a cached-interpreter step computes lies inside its
\* table: the lookup index of the PC the step starts from, and the indices of the
\* two ends of an Fx55 range [I, I + x], also when PC or I is below 0x200; no step
\* stops on an index.
CacheIndicesInRange ==
    /\ (last.method \in CachedMethods) => IndexInTable(last.before.PC, last.method)
    /\ IndexedStore =>
          /\ IndexInTable(StoreBase(last.ops, last.before), last.method)
          /\ IndexInTable(StoreBase(last.ops, last.before) + OpX(LastOp.opcode), last.method)

---------------------------------------------------------------------------
(* Invalid words that are never executed *)

MaxSkipSteps == 4       \* backend steps in one run
MaxSkipInputs == 2      \* method changes and timer expiries in one run
MaxSkipRun == 4         \* instructions of the interpreter compared with one backend step

\* 6000 3000 0000 1200: the skip at 0x202 is always taken, so the word 0000 at 0x204
\* is never executed
RomSkipData == Rom(<<24576, 12288, 0, 4608>>)

SkipRoms == {RomSkipData, RomStoreData}

SkipInit ==
    \E rom \in SkipRoms :
        /\ InitRom(rom)
        /\ budget = [steps |-> MaxSkipSteps, inputs |-> MaxSkipInputs]

SkipSpec == SkipInit /\ [][BackendNext]_vars

RECURSIVE InterpreterInvalidAt(_, _)
\* The address of the invalid word the interpreter, started in the State s, fetches
\* and executes within k instructions: a set of at most one address.
InterpreterInvalidFrom(s, k, opcode, res) ==
    IF ILUT(opcode) = "invalid" THEN {s.PC}
    ELSE IF res.trap THEN {}
    ELSE InterpreterInvalidAt(res.s, k - 1)

InterpreterInvalidAt(s, k) ==
    IF k = 0 \/ ~FetchOk(s.memory, s.PC) THEN {}
    ELSE InterpreterInvalidFrom(s, k, Fetch(s.memory, s.PC),
                                Execute(ILUT(Fetch(s.memory, s.PC)),
                                        [s EXCEPT !.PC = s.PC + 2],
                                        Fetch(s.memory, s.PC), 0, FALSE))

\* The step just taken compiled a block, and compile_block panicked.
CompilePanicked ==
    /\ last.method = "Jit"
    /\ JitGet(last.caches, last.before.PC) = {}
    /\ compile_block(last.before.memory, last.before.PC).trap

\* The addresses of the invalid word the step just taken stopped on: the word handed
\* to execute_invalid, or the word compile_block panicked on.
StoppedOnInvalidAt ==
    IF ~trapped \/ last.method = "none" THEN {}
    ELSE IF CompilePanicked
    THEN {a \in {compile_block(last.before.memory, last.before.PC).cache.end_pc} :
             FetchOk(last.before.memory, a)}
    ELSE IF last.ops # <<>> /\ ILUT(LastOp.opcode) = "invalid" THEN {LastOp.pc}
    ELSE {}

\* C39: a backend stops on an invalid opcode only if the interpreter, run from the
\* same State, fetches and executes that very word; an invalid word that follows a
\* block's instructions and is never executed stops neither the block builders nor
\* the JIT compiler.
InvalidOnlyWhenExecuted ==
    (last.method # "none") =>
        StoppedOnInvalidAt \subseteq InterpreterInvalidAt(last.before, MaxSkipRun)

---------------------------------------------------------------------------
(* Drawing twice *)

MaxDrawCalls == 3       \* handler calls in one run

\* Lit cells <<row, column>> of a screen that is not blank: at the corners the
\* sprites reach and inside the glyphs.
PartLit == {<<0, 0>>, <<0, 63>>, <<1, 1>>, <<4, 3>>, <<31, 62>>, <<31, 6>>}

\* The States the draws start from: I at the glyphs of 0 and 1 and at the last byte
\* of memory, origins at the edges and past them, V[F] set or not, the screen blank
\* or partly lit.
DrawStates ==
    {[StateNew(<<>>) EXCEPT !.I = i, !.V[0] = v0, !.V[1] = v1, !.V[15] = vf,
                            !.screen = scr] :
        i \in {0, 5, 4095}, v0 \in {0, 62, 70}, v1 \in {0, 30}, vf \in {0, 9},
        scr \in {DEFAULT_SCREEN, PartLit}}

\* D015 D011 D010 D105
DrawOpcodes == {53269, 53265, 53264, 53509}

DrawInit ==
    /\ IdleRun
    /\ state \in DrawStates
    /\ play = FALSE
    /\ execution_method = "Interpreter"
    /\ interpreter_caches = EMPTY_TABLE
    /\ interpreter_caches_2 = EMPTY_TABLE
    /\ interpreter_caches_3 = EMPTY_TABLE
    /\ jit_caches = {}
    /\ channel_out = <<>>
    /\ trapped = FALSE
    /\ shadow = StateNew(<<>>)
    /\ shadowTrapped = FALSE
    /\ storer = <<>>
    /\ last = NoCall
    /\ budget = [calls |-> MaxDrawCalls]

DrawNext == \E opcode \in DrawOpcodes : CallHandler(opcode)

DrawSpec == DrawInit /\ [][DrawNext]_vars

\* The call being made repeats the Dxyn called just before it, with x and y other
\* than F, and neither call panics.
DrawnAgain ==
    /\ budget'.calls < budget.calls
    /\ last.handler = "Dxyn" /\ ~last.trap
    /\ last'.opcode = last.opcode /\ ~last'.trap
    /\ OpX(last.opcode) # 15 /\ OpY(last.opcode) # 15

\* The cells of the sprite of the first of the two draws that land on the screen.
LandedCells ==
    SpriteCells(last.before, last.before.V[OpX(last.opcode)] % SCREEN_WIDTH,
                last.before.V[OpY(last.opcode)] % SCREEN_HEIGHT, OpN(last.opcode))

\* The second draw has put the screen back, with V[F] = 1 iff the sprite has a cell
\* on the screen.
RestoredFlagIfLanded ==
    DrawnAgain =>
        /\ state'.screen = last.before.screen
        /\ state'.V[15] = (IF LandedCells # {} THEN 1 ELSE 0)

\* C40: the same Dxyn executed twice in a row, with I, the sprite bytes and the
\* origin registers unchanged and x, y other than F, leaves the screen exactly as it
\* was before the first draw, and the second draw leaves V[F] = 1 iff at least one
\* set bit of the sprite lands on the screen after clipping.
DrawIsInvolution == [][RestoredFlagIfLanded]_vars

\* The second draw has put the screen back, with V[F] = 1 iff the sprite has a cell
\* on the screen that was unlit before the first draw.
RestoredFlagIfUnlit ==
    DrawnAgain =>
        /\ state'.screen = last.before.screen
        /\ state'.V[15] = (IF LandedCells \ last.before.screen # {} THEN 1 ELSE 0)

\* C40 (amended): the same Dxyn executed twice in a row, with I, the sprite bytes
\* and the origin registers unchanged and x, y other than F, leaves the screen exactly
\* as it was before the first draw, and the second draw leaves V[F] = 1 iff at least
\* one set bit of the sprite lands, after clipping, on a cell that was unlit before
\* the first draw.
DrawTwiceRestores == [][RestoredFlagIfUnlit]_vars

\* The second of two equal draws has put back a screen that was partly lit, after a
\* first draw that turned lit cells off.
PartLitRestored ==
    /\ last.handler = "Dxyn" /\ ~last.trap
    /\ budget.calls = MaxDrawCalls - 2
    /\ state.screen = PartLit
    /\ state.V[15] = 1
    /\ last.before.screen # PartLit
    /\ last.before.V[15] = 1

====
